---- MODULE Spec2Model ----
(***************************************************************************)
(* Streaming path of the unified LLM client: BaseClient.Stream starts one  *)
(* producer task running SSEParser.Parse over the HTTP response body; the  *)
(* parser hands every decoded `data:` line to the vendor EventHandler and  *)
(* forwards the returned events on a buffered channel to the caller.       *)
(***************************************************************************)
EXTENDS Integers, Sequences, FiniteSets, TLC

(***************************************************************************)
(* Bounds of the model and constants of the program.                       *)
(***************************************************************************)
\* longest response body, in lines, the server sends before it stops
MaxLines == 3
\* longest stream, in chunks, handed to StreamParser.Parse
MaxChunks == 4
\* longest list of messages given to Transformer.BuildAPIMessages
MaxMessages == 2
\* how many times a caller wraps the error of Complete before it asks about it
MaxWraps == 1
\* how many tool-call ids the adapter and the stream handler generate
MaxGenerations == 11
MaxStreamGenerations == 1
\* capacity of the event channel: make(chan *llm.Event, 10)
ChanCap == 10
\* longest response, in characters, the mock client is set up with
MaxResponse == 3

(***************************************************************************)
(* Decoded JSON values (encoding/json into map[string]any): every value    *)
(* carries its dynamic type, so that a Go type assertion x.(T) is a test   *)
(* of the tag.                                                             *)
(***************************************************************************)
JNull == [t |-> "null"]
JStr(s) == [t |-> "str", s |-> s]
JNum(n) == [t |-> "num", n |-> n]
JBool(b) == [t |-> "bool", b |-> b]
JArr(a) == [t |-> "arr", a |-> a]
JObj(o) == [t |-> "obj", o |-> o]

\* m[k] on a map[string]any: the nil interface when the key is absent
Field(m, k) == IF m.t = "obj" /\ k \in DOMAIN m.o THEN m.o[k] ELSE JNull

\* core.GetString: the string, or "" for any other type
GetString(v) == IF v.t = "str" THEN v.s ELSE ""

\* core.GetFloat64 followed by int(...): the number, or 0 for any other type
GetFloat64(v) == IF v.t = "num" THEN v.n ELSE 0

(***************************************************************************)
(* llm.Event and its delta payloads.  A nil pointer is the empty sequence, *)
(* a non-nil pointer a one-element sequence.                               *)
(***************************************************************************)
EventTypeText == "text"
EventTypeToolCall == "tool_call"
EventTypeReasoning == "reasoning"
EventTypeThinking == "thinking"
EventTypeDone == "done"
EventTypeError == "error"

Event(type) ==
    [Type |-> type, TextDelta |-> "", ToolCall |-> <<>>, Reasoning |-> <<>>,
     FinishReason |-> ""]

TextEvent(text) == [Event(EventTypeText) EXCEPT !.TextDelta = text]

DoneEvent(reason) == [Event(EventTypeDone) EXCEPT !.FinishReason = reason]

ReasoningEvent(type, thought) ==
    [Event(type) EXCEPT !.Reasoning = <<[ThoughtDelta |-> thought]>>]

ToolCallDelta(index, id, name, args) ==
    [Index |-> index, ID |-> id, Name |-> name, ArgumentsDelta |-> args]

ToolCallEvent(d) == [Event(EventTypeToolCall) EXCEPT !.ToolCall = <<d>>]

(***************************************************************************)
(* Payloads of `data:` lines.  A payload is named by a short string that   *)
(* stands for the JSON text given beside it; Unmarshal is json.Unmarshal   *)
(* of that text into a map[string]any.                                     *)
(***************************************************************************)
DoneText == "[DONE]"
InvalidText == "{invalid json}"

\* OpenAI chunks
OATextObj ==
    JObj([choices |-> JArr(<<JObj([delta |-> JObj([content |-> JStr("Hi")])])>>)])

OAMultiObj ==
    JObj([choices |-> JArr(<<JObj([delta |-> JObj(
        [content |-> JStr("A"),
         reasoning_content |-> JStr("r"),
         tool_calls |-> JArr(<<
            JObj([index |-> JNum(0), id |-> JStr("call_a"),
                  function |-> JObj([name |-> JStr("f"), arguments |-> JStr("{")])]),
            JObj([index |-> JNum(1), id |-> JStr("call_b"),
                  function |-> JObj([name |-> JStr("g"), arguments |-> JStr("{}")])])
         >>)])])>>)])

OAFinishObj ==
    JObj([choices |-> JArr(<<JObj([delta |-> JObj([content |-> JStr("")]),
                                   finish_reason |-> JStr("length")])>>)])

OABadChoiceObj == JObj([choices |-> JArr(<<JStr("x")>>)])

\* a frame with both content and a finish reason
OATextFinishObj ==
    JObj([choices |-> JArr(<<JObj([delta |-> JObj([content |-> JStr("Bye")]),
                                   finish_reason |-> JStr("stop")])>>)])

\* a frame whose delta.tool_calls holds an element that is not an object
OABadToolCallObj ==
    JObj([choices |-> JArr(<<JObj([delta |-> JObj([tool_calls |-> JArr(<<JStr("x")>>)])])>>)])

\* Anthropic frames
ANTextObj ==
    JObj([type |-> JStr("content_block_delta"), index |-> JNum(0),
          delta |-> JObj([type |-> JStr("text_delta"), text |-> JStr("World")])])

ANToolObj ==
    JObj([type |-> JStr("content_block_start"), index |-> JNum(1),
          content_block |-> JObj([type |-> JStr("tool_use"), id |-> JStr("toolu_1"),
                                  name |-> JStr("f")])])

ANMsgDeltaObj ==
    JObj([type |-> JStr("message_delta"),
          delta |-> JObj([stop_reason |-> JStr("max_tokens")])])

ANMsgDeltaToolUseObj ==
    JObj([type |-> JStr("message_delta"),
          delta |-> JObj([stop_reason |-> JStr("tool_use")])])

ANStopObj == JObj([type |-> JStr("message_stop")])

\* Gemini chunks
GMTextObj ==
    JObj([candidates |-> JArr(<<JObj([content |-> JObj(
        [parts |-> JArr(<<JObj([text |-> JStr("A")])>>)])])>>)])

GMThoughtObj ==
    JObj([candidates |-> JArr(<<JObj([content |-> JObj(
        [parts |-> JArr(<<JObj([text |-> JStr("T"), thought |-> JBool(TRUE)])>>)])])>>)])

GMPartsObj ==
    JObj([candidates |-> JArr(<<JObj([content |-> JObj(
        [parts |-> JArr(<<
            JObj([text |-> JStr("T"), thought |-> JBool(TRUE)]),
            JObj([text |-> JStr("B")]),
            JObj([functionCall |-> JObj([name |-> JStr("f"),
                                         args |-> JObj([x |-> JNum(1)])])])
         >>)])])>>)])

GMFinishObj == JObj([candidates |-> JArr(<<JObj([finishReason |-> JStr("STOP")])>>)])

\* a chunk with both a text part and a finish reason
GMTextFinishObj ==
    JObj([candidates |-> JArr(<<JObj(
        [content |-> JObj([parts |-> JArr(<<JObj([text |-> JStr("Z")])>>)]),
         finishReason |-> JStr("STOP")])>>)])

GMBadCandidateObj == JObj([candidates |-> JArr(<<JStr("x")>>)])

\* json.Unmarshal([]byte(data), &payload): err # nil for a text that is not a
\* JSON object, the decoded map otherwise
Unmarshal(data) ==
    CASE data = "oa_text" -> [err |-> FALSE, payload |-> OATextObj]
      [] data = "oa_multi" -> [err |-> FALSE, payload |-> OAMultiObj]
      [] data = "oa_finish" -> [err |-> FALSE, payload |-> OAFinishObj]
      [] data = "oa_badchoice" -> [err |-> FALSE, payload |-> OABadChoiceObj]
      [] data = "an_text" -> [err |-> FALSE, payload |-> ANTextObj]
      [] data = "an_tool" -> [err |-> FALSE, payload |-> ANToolObj]
      [] data = "an_msg_delta" -> [err |-> FALSE, payload |-> ANMsgDeltaObj]
      [] data = "an_stop" -> [err |-> FALSE, payload |-> ANStopObj]
      [] data = "oa_text_finish" -> [err |-> FALSE, payload |-> OATextFinishObj]
      [] data = "oa_badtool" -> [err |-> FALSE, payload |-> OABadToolCallObj]
      [] data = "an_msg_delta_tool_use" -> [err |-> FALSE, payload |-> ANMsgDeltaToolUseObj]
      [] data = "gm_text_finish" -> [err |-> FALSE, payload |-> GMTextFinishObj]
      [] data = "gm_badcandidate" -> [err |-> FALSE, payload |-> GMBadCandidateObj]
      [] data = "gm_text" -> [err |-> FALSE, payload |-> GMTextObj]
      [] data = "gm_thought" -> [err |-> FALSE, payload |-> GMThoughtObj]
      [] data = "gm_parts" -> [err |-> FALSE, payload |-> GMPartsObj]
      [] data = "gm_finish" -> [err |-> FALSE, payload |-> GMFinishObj]
      [] OTHER -> [err |-> TRUE, payload |-> JNull]

\* json.Marshal of a decoded object with at most one numeric member
Marshal(v) ==
    IF v.t = "obj" /\ DOMAIN v.o = {"x"} /\ v.o["x"].t = "num"
    THEN "{\"x\":" \o ToString(v.o["x"].n) \o "}"
    ELSE "{}"

(***************************************************************************)
(* Handler results: the events, the stop signal, and whether the call      *)
(* panicked on an unchecked type assertion.                                *)
(***************************************************************************)
Result(events, stop) == [events |-> events, stop |-> stop, panic |-> FALSE]

Panic == [events |-> <<>>, stop |-> FALSE, panic |-> TRUE]

(***************************************************************************)
(* OpenAI EventHandler                                                     *)
(***************************************************************************)
\* one element of delta.tool_calls
OpenAIToolCallEvent(tcMap) ==
    LET fn == Field(tcMap, "function")
        id == IF Field(tcMap, "id").t = "str" THEN Field(tcMap, "id").s ELSE ""
        name == IF fn.t = "obj" /\ Field(fn, "name").t = "str"
                THEN Field(fn, "name").s ELSE ""
        args == IF fn.t = "obj" /\ Field(fn, "arguments").t = "str"
                THEN Field(fn, "arguments").s ELSE ""
    IN ToolCallEvent(ToolCallDelta(GetFloat64(Field(tcMap, "index")), id, name, args))

\* HandleEvent that signals stop with the done event of a finish_reason frame
OpenAIHandleEventStopOnFinish(eventType, data) ==
    LET choices == Field(data, "choices") IN
    IF choices.t # "arr" \/ Len(choices.a) = 0 THEN Result(<<>>, FALSE)
    ELSE LET choice == choices.a[1] IN
    IF choice.t # "obj" THEN Panic
    ELSE LET fr == Field(choice, "finish_reason")
             delta == Field(choice, "delta") IN
    IF fr.t = "str" /\ fr.s # "" THEN Result(<<DoneEvent(fr.s)>>, TRUE)
    ELSE IF delta.t # "obj" THEN Result(<<>>, FALSE)
    ELSE LET content == Field(delta, "content")
             reasoningContent == Field(delta, "reasoning_content")
             toolCalls == Field(delta, "tool_calls")
             textEvents == IF content.t = "str" /\ content.s # ""
                           THEN <<TextEvent(content.s)>> ELSE <<>>
             reasoningEvents ==
                 IF reasoningContent.t = "str" /\ reasoningContent.s # ""
                 THEN <<ReasoningEvent(EventTypeReasoning, reasoningContent.s)>>
                 ELSE <<>>
         IN IF toolCalls.t # "arr" THEN Result(textEvents \o reasoningEvents, FALSE)
            ELSE IF \E i \in 1..Len(toolCalls.a) : toolCalls.a[i].t # "obj" THEN Panic
            ELSE Result(textEvents \o reasoningEvents \o
                        [i \in 1..Len(toolCalls.a) |-> OpenAIToolCallEvent(toolCalls.a[i])],
                        FALSE)

\* the OpenAI-compatible HandleEvent
OpenAIHandleEvent(eventType, data) ==
    LET choices == Field(data, "choices") IN
    IF choices.t # "arr" \/ Len(choices.a) = 0 THEN Result(<<>>, FALSE)
    ELSE LET choice == choices.a[1] IN
    IF choice.t # "obj" THEN Panic
    ELSE LET fr == Field(choice, "finish_reason")
             delta == Field(choice, "delta") IN
    IF fr.t = "str" /\ fr.s # "" THEN Result(<<DoneEvent(fr.s)>>, FALSE)
    ELSE IF delta.t # "obj" THEN Result(<<>>, FALSE)
    ELSE LET content == Field(delta, "content")
             reasoningContent == Field(delta, "reasoning_content")
             toolCalls == Field(delta, "tool_calls")
             textEvents == IF content.t = "str" /\ content.s # ""
                           THEN <<TextEvent(content.s)>> ELSE <<>>
             reasoningEvents ==
                 IF reasoningContent.t = "str" /\ reasoningContent.s # ""
                 THEN <<ReasoningEvent(EventTypeReasoning, reasoningContent.s)>>
                 ELSE <<>>
         IN IF toolCalls.t # "arr" THEN Result(textEvents \o reasoningEvents, FALSE)
            ELSE IF \E i \in 1..Len(toolCalls.a) : toolCalls.a[i].t # "obj" THEN Panic
            ELSE Result(textEvents \o reasoningEvents \o
                        [i \in 1..Len(toolCalls.a) |-> OpenAIToolCallEvent(toolCalls.a[i])],
                        FALSE)

OpenAIShouldStopOnData(data) == data = DoneText

(***************************************************************************)
(* Anthropic EventHandler                                                  *)
(***************************************************************************)
\* convertStopReason without the case "stop_sequence"
convertStopReasonNoSequence(stopReason) ==
    CASE stopReason = "end_turn" -> "stop"
      [] stopReason = "max_tokens" -> "length"
      [] stopReason = "tool_use" -> "tool_calls"
      [] OTHER -> stopReason

convertStopReason(stopReason) ==
    CASE stopReason = "end_turn" -> "stop"
      [] stopReason = "max_tokens" -> "length"
      [] stopReason = "tool_use" -> "tool_calls"
      [] stopReason = "stop_sequence" -> "stop"
      [] OTHER -> stopReason

AnthropicHandleEvent(eventType, data) ==
    CASE eventType = "content_block_start" ->
            LET block == Field(data, "content_block") IN
            IF block.t = "obj" /\ GetString(Field(block, "type")) = "tool_use"
            THEN Result(<<ToolCallEvent(ToolCallDelta(
                            GetFloat64(Field(data, "index")),
                            GetString(Field(block, "id")),
                            GetString(Field(block, "name")), ""))>>, FALSE)
            ELSE Result(<<>>, FALSE)
      [] eventType = "content_block_delta" ->
            LET delta == Field(data, "delta") IN
            IF delta.t # "obj" THEN Result(<<>>, FALSE)
            ELSE LET deltaType == GetString(Field(delta, "type")) IN
            CASE deltaType = "text_delta" ->
                    LET text == GetString(Field(delta, "text")) IN
                    Result(IF text # "" THEN <<TextEvent(text)>> ELSE <<>>, FALSE)
              [] deltaType = "input_json_delta" ->
                    LET partialJSON == GetString(Field(delta, "partial_json")) IN
                    Result(IF partialJSON # ""
                           THEN <<ToolCallEvent(ToolCallDelta(
                                    GetFloat64(Field(data, "index")), "", "", partialJSON))>>
                           ELSE <<>>, FALSE)
              [] deltaType = "thinking_delta" ->
                    LET thinking == GetString(Field(delta, "thinking")) IN
                    Result(IF thinking # ""
                           THEN <<ReasoningEvent(EventTypeReasoning, thinking)>>
                           ELSE <<>>, FALSE)
              [] OTHER -> Result(<<>>, FALSE)
      [] eventType = "message_delta" ->
            LET delta == Field(data, "delta")
                stopReason == Field(delta, "stop_reason") IN
            IF delta.t = "obj" /\ stopReason.t = "str" /\ stopReason.s # ""
            THEN Result(<<DoneEvent(convertStopReason(stopReason.s))>>, FALSE)
            ELSE Result(<<>>, FALSE)
      [] eventType = "message_stop" -> Result(<<DoneEvent("stop")>>, FALSE)
      [] OTHER -> Result(<<>>, FALSE)

AnthropicShouldStopOnData(data) == FALSE

(***************************************************************************)
(* Gemini EventHandler.  generateStreamToolCallID advances the process-    *)
(* wide counter, so the handler takes the counter and returns it.          *)
(***************************************************************************)
\* the finish reason passed on as Gemini spells it
mapFinishReasonUnmapped(reason) == reason

mapFinishReasonForEvent(reason) ==
    CASE reason = "STOP" -> "stop"
      [] reason = "MAX_TOKENS" -> "length"
      [] reason = "SAFETY" -> "content_filter"
      [] reason = "RECITATION" -> "content_filter"
      [] reason = "OTHER" -> "stop"
      [] OTHER -> reason

Letters ==
    <<"a", "b", "c", "d", "e", "f", "g", "h", "i", "j", "k", "l", "m",
      "n", "o", "p", "q", "r", "s", "t", "u", "v", "w", "x", "y", "z">>

\* the id made after the counter was advanced to `counter`
StreamToolCallID(counter) == "gemini_call_" \o Letters[(counter % 26) + 1]

\* the events of parts[i..], with the counter after them
RECURSIVE GeminiParts(_, _, _)
GeminiParts(parts, i, counter) ==
    IF i > Len(parts) THEN [events |-> <<>>, counter |-> counter]
    ELSE LET partMap == parts[i] IN
    IF partMap.t # "obj" THEN GeminiParts(parts, i + 1, counter)
    ELSE LET thought == Field(partMap, "thought")
             isThought == thought.t = "bool" /\ thought.b
             text == Field(partMap, "text")
             fc == Field(partMap, "functionCall")
             textEvents ==
                 IF text.t = "str" /\ text.s # ""
                 THEN IF isThought
                      THEN <<ReasoningEvent(EventTypeThinking, text.s)>>
                      ELSE <<TextEvent(text.s)>>
                 ELSE <<>>
             hasCall == fc.t = "obj"
             args == Field(fc, "args")
             argsDelta == IF args.t = "obj" THEN Marshal(args) ELSE ""
             callEvents ==
                 IF hasCall
                 THEN <<ToolCallEvent(ToolCallDelta(i - 1, StreamToolCallID(counter + 1),
                                                    GetString(Field(fc, "name")),
                                                    argsDelta))>>
                 ELSE <<>>
             rest == GeminiParts(parts, i + 1, IF hasCall THEN counter + 1 ELSE counter)
         IN [events |-> textEvents \o callEvents \o rest.events, counter |-> rest.counter]

GeminiHandleEvent(eventType, data, counter) ==
    LET candidates == Field(data, "candidates")
        none == [res |-> Result(<<>>, FALSE), counter |-> counter] IN
    IF candidates.t # "arr" \/ Len(candidates.a) = 0 THEN none
    ELSE LET candidate == candidates.a[1] IN
    IF candidate.t # "obj" THEN [res |-> Panic, counter |-> counter]
    ELSE LET fr == Field(candidate, "finishReason")
             content == Field(candidate, "content")
             parts == Field(content, "parts") IN
    IF fr.t = "str" /\ fr.s # ""
    THEN [res |-> Result(<<DoneEvent(mapFinishReasonForEvent(fr.s))>>, TRUE),
          counter |-> counter]
    ELSE IF content.t # "obj" THEN none
    ELSE IF parts.t # "arr" \/ Len(parts.a) = 0 THEN none
    ELSE LET r == GeminiParts(parts.a, 1, counter) IN
         [res |-> Result(r.events, FALSE), counter |-> r.counter]

GeminiShouldStopOnData(data) == FALSE

(***************************************************************************)
(* The handler behind the EventHandler interface of one SSEParser.         *)
(***************************************************************************)
Handlers == {"openai", "anthropic", "gemini"}

ShouldStopOnData(h, data) ==
    CASE h = "openai" -> OpenAIShouldStopOnData(data)
      [] h = "anthropic" -> AnthropicShouldStopOnData(data)
      [] h = "gemini" -> GeminiShouldStopOnData(data)

\* [res |-> handler result, counter |-> streamToolCallCounter after the call]
HandleEvent(h, eventType, data, counter) ==
    CASE h = "openai" -> [res |-> OpenAIHandleEvent(eventType, data), counter |-> counter]
      [] h = "anthropic" ->
            [res |-> AnthropicHandleEvent(eventType, data), counter |-> counter]
      [] h = "gemini" -> GeminiHandleEvent(eventType, data, counter)

(***************************************************************************)
(* Lines of a response body.  A line is its text split at the prefix the   *)
(* parser looks for; `long` marks a line longer than bufio.Scanner's       *)
(* token limit, on which Scan gives up.                                    *)
(***************************************************************************)
EventPrefix == "event: "
DataPrefix == "data: "

Line(prefix, rest) == [prefix |-> prefix, rest |-> rest, long |-> FALSE]

EventLine(name) == Line(EventPrefix, name)
DataLine(data) == Line(DataPrefix, data)
BlankLine == Line("", "")
CommentLine == Line(": ", "keep-alive")
LongLine == [prefix |-> DataPrefix, rest |-> InvalidText, long |-> TRUE]

CommonLines == {BlankLine, DataLine(InvalidText), DataLine(DoneText), LongLine}

\* the lines a server of each vendor is taken to send
LinesFor(h) ==
    CommonLines \cup
    CASE h = "openai" ->
            {DataLine("oa_text"), DataLine("oa_multi"), DataLine("oa_finish"),
             DataLine("oa_badchoice")}
      [] h = "anthropic" ->
            {EventLine("content_block_delta"), EventLine("message_stop"),
             DataLine("an_text"), DataLine("an_stop")}
      [] h = "gemini" ->
            {CommentLine, DataLine("gm_text"), DataLine("gm_thought"), DataLine("gm_parts"),
             DataLine("gm_finish")}

(***************************************************************************)
(* One iteration of the scan loop of SSEParser.Parse on a line that Scan   *)
(* returned: the new currentEvent, the events to send, whether Parse       *)
(* returns after sending them, and the handler call made (if any).         *)
(***************************************************************************)
Continue(currentEvent, counter) ==
    [currentEvent |-> currentEvent, counter |-> counter, send |-> <<>>,
     return |-> FALSE, why |-> "", call |-> <<>>, panic |-> FALSE]

\* the loop body with `continue` in place of `return` after the terminator's
\* done event
ProcessLineNoReturnOnDone(h, currentEvent, counter, line) ==
    IF line.prefix = EventPrefix THEN Continue(line.rest, counter)
    ELSE IF line.prefix # DataPrefix THEN Continue(currentEvent, counter)
    ELSE LET data == line.rest IN
    IF ShouldStopOnData(h, data)
    THEN [Continue(currentEvent, counter) EXCEPT !.send = <<DoneEvent("stop")>>]
    ELSE LET u == Unmarshal(data) IN
    IF u.err THEN Continue(currentEvent, counter)
    ELSE LET r == HandleEvent(h, currentEvent, u.payload, counter) IN
         [currentEvent |-> currentEvent, counter |-> r.counter,
          send |-> r.res.events, return |-> r.res.stop,
          why |-> IF r.res.stop THEN "stop" ELSE "",
          call |-> <<[eventType |-> currentEvent, data |-> data,
                      events |-> r.res.events, stop |-> r.res.stop]>>,
          panic |-> r.res.panic]

\* the loop body with the stop signal checked before the events are forwarded
ProcessLineStopBeforeForward(h, currentEvent, counter, line) ==
    IF line.prefix = EventPrefix THEN Continue(line.rest, counter)
    ELSE IF line.prefix # DataPrefix THEN Continue(currentEvent, counter)
    ELSE LET data == line.rest IN
    IF ShouldStopOnData(h, data)
    THEN [Continue(currentEvent, counter) EXCEPT
            !.send = <<DoneEvent("stop")>>, !.return = TRUE, !.why = "terminator"]
    ELSE LET u == Unmarshal(data) IN
    IF u.err THEN Continue(currentEvent, counter)
    ELSE LET r == HandleEvent(h, currentEvent, u.payload, counter) IN
         [currentEvent |-> currentEvent, counter |-> r.counter,
          send |-> IF r.res.stop THEN <<>> ELSE r.res.events, return |-> r.res.stop,
          why |-> IF r.res.stop THEN "stop" ELSE "",
          call |-> <<[eventType |-> currentEvent, data |-> data,
                      events |-> r.res.events, stop |-> r.res.stop]>>,
          panic |-> r.res.panic]

\* the loop body with `return` in place of `continue` on a decode failure
ProcessLineReturnOnBadJSON(h, currentEvent, counter, line) ==
    IF line.prefix = EventPrefix THEN Continue(line.rest, counter)
    ELSE IF line.prefix # DataPrefix THEN Continue(currentEvent, counter)
    ELSE LET data == line.rest IN
    IF ShouldStopOnData(h, data)
    THEN [Continue(currentEvent, counter) EXCEPT
            !.send = <<DoneEvent("stop")>>, !.return = TRUE, !.why = "terminator"]
    ELSE LET u == Unmarshal(data) IN
    IF u.err THEN [Continue(currentEvent, counter) EXCEPT !.return = TRUE, !.why = "bad_json"]
    ELSE LET r == HandleEvent(h, currentEvent, u.payload, counter) IN
         [currentEvent |-> currentEvent, counter |-> r.counter,
          send |-> r.res.events, return |-> r.res.stop,
          why |-> IF r.res.stop THEN "stop" ELSE "",
          call |-> <<[eventType |-> currentEvent, data |-> data,
                      events |-> r.res.events, stop |-> r.res.stop]>>,
          panic |-> r.res.panic]

ProcessLine(h, currentEvent, counter, line) ==
    IF line.prefix = EventPrefix THEN Continue(line.rest, counter)
    ELSE IF line.prefix # DataPrefix THEN Continue(currentEvent, counter)
    ELSE LET data == line.rest IN
    IF ShouldStopOnData(h, data)
    THEN [Continue(currentEvent, counter) EXCEPT
            !.send = <<DoneEvent("stop")>>, !.return = TRUE, !.why = "terminator"]
    ELSE LET u == Unmarshal(data) IN
    IF u.err THEN Continue(currentEvent, counter)
    ELSE LET r == HandleEvent(h, currentEvent, u.payload, counter) IN
         [currentEvent |-> currentEvent, counter |-> r.counter,
          send |-> r.res.events, return |-> r.res.stop,
          why |-> IF r.res.stop THEN "stop" ELSE "",
          call |-> <<[eventType |-> currentEvent, data |-> data,
                      events |-> r.res.events, stop |-> r.res.stop]>>,
          panic |-> r.res.panic]

(***************************************************************************)
(* State                                                                   *)
(***************************************************************************)
VARIABLES
    handler,        \* the EventHandler of the client's SSEParser
    pc,             \* "idle", "failed" (Stream returned an error), or the
                    \* parser task's position: "scan", "send", "done", "panicked"
    ret,            \* what Stream returned: [ch, err]
    body,           \* the lines Scan has returned so far
    currentEvent,   \* Parse: var currentEvent string
    pending,        \* Parse: the parsedEvents not yet sent
    returnAfter,    \* Parse: whether it returns once pending is sent
    why,            \* why Parse returns once pending is sent
    events,         \* the buffer of the event channel
    closes,         \* how many times close(events) ran
    bodyClosed,     \* whether the response body was closed
    cancelled,      \* whether the caller's context is cancelled
    consumer,       \* the caller: "active", "stopped", "finished"
    received,       \* the events the caller received
    calls,          \* the HandleEvent calls made, with their results
    endedBy,        \* how Parse ended
    sentAfterClose, \* whether a send happened on the closed channel
    streamToolCallCounter, \* gemini: var streamToolCallCounter int
    streamParser,   \* the StreamParser: textBuf, reasoningBuf, toolBufs, maxIndex
    finishReason,   \* StreamParser.Parse: var finishReason string
    chunks,         \* the chunks StreamParser.Parse has taken from its stream
    messages,       \* the caller's neutral messages
    systemPrompt,   \* the caller's system prompt
    apiMsgs,        \* what Transformer.BuildAPIMessages returned, once called
    parsed,         \* what ConvertFromAPI returned for a wire message read back
    toolCallCounter, \* gemini adapter: var toolCallCounter int
    httpResponse,   \* the response Complete got, or the response of status >= 400 Stream got
    result,         \* what Complete or Stream returned besides the channel: [resp, err]
    retryable,      \* what IsRetryableError said of that error, once asked
    finishReasons,  \* a vendor finish reason, and what the sync and stream paths made of it
    generators,     \* gemini: the goroutines generating a tool-call id: [pc, tmp, kind]
    issuedIDs,      \* gemini: how many times each synthetic id was returned
    cfg,            \* provider.New: the *llm.Config it is given, <<>> for nil
    newResult,      \* provider.New: what it returned, once called: [provider, err]
    mock            \* localmock: the client's response and delay, and its producer task

vars ==
    <<handler, pc, ret, body, currentEvent, pending, returnAfter, why, events, closes,
      bodyClosed, cancelled, consumer, received, calls, endedBy, sentAfterClose,
      streamToolCallCounter, streamParser, finishReason, chunks, messages, systemPrompt,
      apiMsgs, parsed, toolCallCounter, httpResponse, result, retryable, finishReasons,
      generators, issuedIDs, cfg, newResult, mock>>

parserVars == <<body, currentEvent, pending, returnAfter, why, calls, streamToolCallCounter>>
callerVars == <<cancelled, consumer, received>>
aggregatorVars == <<streamParser, finishReason, chunks>>
requestVars ==
    <<messages, systemPrompt, apiMsgs, parsed, toolCallCounter, httpResponse, result, retryable>>
lateVars == <<finishReasons, generators, issuedIDs, cfg, newResult, mock>>
idVars == <<generators, issuedIDs>>
tailVars == <<cfg, newResult, mock>>
streamVars ==
    <<handler, pc, ret, body, currentEvent, pending, returnAfter, why, events, closes,
      bodyClosed, cancelled, consumer, received, calls, endedBy, sentAfterClose,
      streamToolCallCounter>>

\* NewStreamParser
NewStreamParser == [textBuf |-> "", reasoningBuf |-> "", toolBufs |-> <<>>, maxIndex |-> 0]

\* the stream, its parser and the aggregator before the call
InitStream ==
    /\ handler \in Handlers
    /\ pc = "idle"
    /\ ret = [ch |-> FALSE, err |-> "nil"]
    /\ body = <<>>
    /\ currentEvent = ""
    /\ pending = <<>>
    /\ returnAfter = FALSE
    /\ why = ""
    /\ events = <<>>
    /\ closes = 0
    /\ bodyClosed = FALSE
    /\ cancelled = FALSE
    /\ consumer = "active"
    /\ received = <<>>
    /\ calls = <<>>
    /\ endedBy = ""
    /\ sentAfterClose = FALSE
    /\ streamToolCallCounter = 0
    /\ streamParser = NewStreamParser
    /\ finishReason = ""
    /\ chunks = <<>>

\* no request made yet
InitRequest ==
    /\ apiMsgs = <<>>
    /\ parsed = <<>>
    /\ toolCallCounter = 0
    /\ httpResponse = <<>>
    /\ result = <<>>
    /\ retryable = <<>>

Goroutines == {"g1", "g2"}

\* no id generated yet
InitIDs ==
    /\ generators = [g \in Goroutines |-> [pc |-> "idle", tmp |-> 0, kind |-> ""]]
    /\ issuedIDs = <<>>

\* no finish reason given yet, no id generated yet
\* no provider built, no mock stream started
InitTail ==
    /\ cfg = <<>>
    /\ newResult = <<>>
    /\ mock = <<>>

InitLate ==
    /\ finishReasons = [vendor |-> "", sync |-> <<>>, stream |-> <<>>]
    /\ InitIDs
    /\ InitTail

Init ==
    /\ InitStream
    /\ InitRequest
    /\ InitLate
    /\ messages = <<>>
    /\ systemPrompt = ""

(***************************************************************************)
(* Errors                                                                  *)
(***************************************************************************)
ErrTypeRequest == "request_error"
ErrTypeHTTP == "http_error"
ErrTypeResponse == "response_error"
ErrTypeAPI == "api_error"

\* an error of another package: the cause given to a constructor, or
\* fmt.Errorf("...: %w", err) around err (<<>> for none)
OtherError(err) == [Type |-> "error", Err |-> err]

NewRequestError(stage) == [Type |-> ErrTypeRequest, Stage |-> stage, Err |-> <<OtherError(<<>>)>>]

NewHTTPError == [Type |-> ErrTypeHTTP, Err |-> <<OtherError(<<>>)>>]

\* NewAPIError(...), then WithRequestID and WithProvider
NewAPIError(statusCode, response, requestID, provider) ==
    [Type |-> ErrTypeAPI, StatusCode |-> statusCode, Response |-> response,
     Provider |-> provider, RequestID |-> requestID, Err |-> <<>>]

\* errors.As(err, &e) for e *APIError: the first APIError of the Unwrap chain
RECURSIVE AsAPIError(_)
AsAPIError(err) ==
    IF err.Type = ErrTypeAPI THEN <<err>>
    ELSE IF err.Err = <<>> THEN <<>>
    ELSE AsAPIError(err.Err[1])

\* APIError.IsRetryable
IsRetryable(e) == e.StatusCode = 429 \/ (e.StatusCode >= 500 /\ e.StatusCode <= 504)

IsRetryableError(err) == IF AsAPIError(err) # <<>> THEN IsRetryable(AsAPIError(err)[1]) ELSE FALSE

(***************************************************************************)
(* The HTTP exchange.  A response is its status, its X-Request-ID header   *)
(* ("" when absent), the text of its body, and whether its Content-Type is *)
(* JSON.                                                                   *)
(***************************************************************************)
RequestIDs == {"", "req-123"}

\* the text of a response body: the vendor's JSON answer, or a text that is
\* not JSON
ValidBody == "{...}"
InvalidBody == "<html>"

\* resp.String(): the body the HTTP library has read; it reads none for a
\* request made with SetDoNotParseResponse(true)
ResponseString(resp, doNotParse) == IF doNotParse THEN "" ELSE resp.body

\* config.ProviderName()
ProviderName(h) == h

\* the APIError both Complete and Stream build for a status >= 400
APIErrorOf(h, resp, doNotParse) ==
    NewAPIError(resp.status, ResponseString(resp, doNotParse), resp.requestID, ProviderName(h))

(***************************************************************************)
(* BaseClient.Stream                                                       *)
(***************************************************************************)
StatusCodes == {200, 429, 500}

\* the responses of the server to Stream; the body of a response of status
\* 200 is the stream of lines that Parse scans
StreamResponses ==
    [status : StatusCodes, requestID : RequestIDs, body : {InvalidBody}, json : {FALSE}]

Failed(err) == <<[resp |-> <<>>, err |-> <<err>>]>>

\* Stream without the close of the body of an error response
StreamLeavesBodyOpen(reqErr, transportErr, resp) ==
    /\ pc = "idle"
    /\ pc' = IF reqErr # "none" \/ transportErr \/ resp.status >= 400 THEN "failed" ELSE "scan"
    /\ ret' = IF reqErr # "none" THEN [ch |-> FALSE, err |-> "RequestError"]
              ELSE IF transportErr THEN [ch |-> FALSE, err |-> "HTTPError"]
              ELSE IF resp.status >= 400 THEN [ch |-> FALSE, err |-> "APIError"]
              ELSE [ch |-> TRUE, err |-> "nil"]
    /\ UNCHANGED <<handler, events, closes, endedBy, sentAfterClose, bodyClosed>>
    /\ UNCHANGED parserVars
    /\ UNCHANGED callerVars
    /\ UNCHANGED aggregatorVars
    /\ UNCHANGED requestVars
    /\ UNCHANGED lateVars

\* reqErr: "build" or "marshal" when the request cannot be made; transportErr:
\* the POST failed; resp: the response of the server
Stream(reqErr, transportErr, resp) ==
    /\ pc = "idle"
    /\ IF reqErr # "none"
       THEN /\ ret' = [ch |-> FALSE, err |-> "RequestError"]
            /\ result' = Failed(NewRequestError(IF reqErr = "build" THEN "build request"
                                                ELSE "marshal request"))
            /\ pc' = "failed"
            /\ UNCHANGED <<bodyClosed, httpResponse>>
       ELSE IF transportErr
       THEN /\ ret' = [ch |-> FALSE, err |-> "HTTPError"]
            /\ result' = Failed(NewHTTPError)
            /\ pc' = "failed"
            /\ UNCHANGED <<bodyClosed, httpResponse>>
       ELSE IF resp.status >= 400
       THEN /\ ret' = [ch |-> FALSE, err |-> "APIError"]
            /\ result' = Failed(APIErrorOf(handler, resp, TRUE))
            /\ httpResponse' = <<resp>>
            /\ pc' = "failed"
            /\ bodyClosed' = TRUE
       ELSE /\ ret' = [ch |-> TRUE, err |-> "nil"]
            /\ pc' = "scan"
            /\ UNCHANGED <<bodyClosed, httpResponse, result>>
    /\ UNCHANGED <<handler, events, closes, endedBy, sentAfterClose>>
    /\ UNCHANGED parserVars
    /\ UNCHANGED callerVars
    /\ UNCHANGED aggregatorVars
    /\ UNCHANGED lateVars
    /\ UNCHANGED <<messages, systemPrompt, apiMsgs, parsed, toolCallCounter, retryable>>

(***************************************************************************)
(* SSEParser.Parse, the producer task                                      *)
(***************************************************************************)
\* Parse without `defer`: the channel and the body are closed only where the
\* scan loop falls through at the end of input
ParserReturnNoDefer(reason) ==
    /\ closes' = IF reason = "eof" THEN closes + 1 ELSE closes
    /\ bodyClosed' = (reason = "eof")
    /\ endedBy' = reason
    /\ pc' = IF reason = "panic" THEN "panicked" ELSE "done"

\* Parse that closes the channel but leaves the response body open
ParserReturnBodyOpen(reason) ==
    /\ closes' = closes + 1
    /\ UNCHANGED bodyClosed
    /\ endedBy' = reason
    /\ pc' = IF reason = "panic" THEN "panicked" ELSE "done"

\* the deferred calls of Parse: close(events), then body.Close()
ParserReturn(reason) ==
    /\ closes' = closes + 1
    /\ bodyClosed' = TRUE
    /\ endedBy' = reason
    /\ pc' = IF reason = "panic" THEN "panicked" ELSE "done"

\* scanner.Scan() returned true with `line`, and the loop body ran up to its
\* first channel send or its return
ScanLine(line) ==
    /\ pc = "scan"
    /\ Len(body) < MaxLines
    /\ ~line.long
    /\ body' = Append(body, line)
    /\ LET r == ProcessLine(handler, currentEvent, streamToolCallCounter, line) IN
       /\ currentEvent' = r.currentEvent
       /\ streamToolCallCounter' = r.counter
       /\ calls' = calls \o [i \in 1..Len(r.call) |->
                                [line |-> Len(body) + 1, eventType |-> r.call[i].eventType,
                                 data |-> r.call[i].data, events |-> r.call[i].events,
                                 stop |-> r.call[i].stop]]
       /\ IF r.panic
          THEN /\ ParserReturn("panic")
               /\ UNCHANGED <<pending, returnAfter, why>>
          ELSE IF r.send = <<>>
          THEN /\ IF r.return
                  THEN ParserReturn(r.why)
                  ELSE UNCHANGED <<pc, closes, bodyClosed, endedBy>>
               /\ UNCHANGED <<pending, returnAfter, why>>
          ELSE /\ pending' = r.send
               /\ returnAfter' = r.return
               /\ why' = r.why
               /\ pc' = "send"
               /\ UNCHANGED <<closes, bodyClosed, endedBy>>
    /\ UNCHANGED <<handler, ret, events, sentAfterClose>>
    /\ UNCHANGED callerVars
    /\ UNCHANGED aggregatorVars
    /\ UNCHANGED requestVars
    /\ UNCHANGED lateVars

\* scanner.Scan() returned false; reason: "eof" (end of input), "read_error"
\* (the connection failed), "cancelled" (the request context was cancelled and
\* the read aborted) or "too_long" (a line over the token limit)
ScanStop(reason) ==
    /\ pc = "scan"
    /\ \/ reason \in {"eof", "read_error"}
       \/ reason = "cancelled" /\ cancelled
       \/ reason = "too_long" /\ Len(body) < MaxLines /\ LongLine \in LinesFor(handler)
    /\ body' = IF reason = "too_long" THEN Append(body, LongLine) ELSE body
    /\ ParserReturn(reason)
    /\ UNCHANGED <<handler, ret, currentEvent, pending, returnAfter, why, events, calls,
                   sentAfterClose, streamToolCallCounter>>
    /\ UNCHANGED callerVars
    /\ UNCHANGED aggregatorVars
    /\ UNCHANGED requestVars
    /\ UNCHANGED lateVars

\* a send that does not block: the event is dropped while the buffer is full
SendOrDrop ==
    /\ pc = "send"
    /\ events' = IF Len(events) < ChanCap THEN Append(events, Head(pending)) ELSE events
    /\ sentAfterClose' = (sentAfterClose \/ closes > 0)
    /\ pending' = Tail(pending)
    /\ IF Tail(pending) = <<>>
       THEN /\ returnAfter' = FALSE
            /\ why' = ""
            /\ IF returnAfter
               THEN ParserReturn(why)
               ELSE /\ pc' = "scan"
                    /\ UNCHANGED <<closes, bodyClosed, endedBy>>
       ELSE UNCHANGED <<pc, returnAfter, why, closes, bodyClosed, endedBy>>
    /\ UNCHANGED <<handler, ret, body, currentEvent, calls, streamToolCallCounter>>
    /\ UNCHANGED callerVars
    /\ UNCHANGED aggregatorVars
    /\ UNCHANGED requestVars
    /\ UNCHANGED lateVars

\* events <- event, for the next event of parsedEvents; blocks while the
\* buffer is full
Send ==
    /\ pc = "send"
    /\ Len(events) < ChanCap
    /\ events' = Append(events, Head(pending))
    /\ sentAfterClose' = (sentAfterClose \/ closes > 0)
    /\ pending' = Tail(pending)
    /\ IF Tail(pending) = <<>>
       THEN /\ returnAfter' = FALSE
            /\ why' = ""
            /\ IF returnAfter
               THEN ParserReturn(why)
               ELSE /\ pc' = "scan"
                    /\ UNCHANGED <<closes, bodyClosed, endedBy>>
       ELSE UNCHANGED <<pc, returnAfter, why, closes, bodyClosed, endedBy>>
    /\ UNCHANGED <<handler, ret, body, currentEvent, calls, streamToolCallCounter>>
    /\ UNCHANGED callerVars
    /\ UNCHANGED aggregatorVars
    /\ UNCHANGED requestVars
    /\ UNCHANGED lateVars

(***************************************************************************)
(* The caller                                                              *)
(***************************************************************************)
Started == pc \notin {"idle", "failed"}

\* one iteration of `for event := range events`
Recv ==
    /\ Started
    /\ consumer = "active"
    /\ IF events # <<>>
       THEN /\ received' = Append(received, Head(events))
            /\ events' = Tail(events)
            /\ UNCHANGED consumer
       ELSE /\ closes > 0
            /\ consumer' = "finished"
            /\ UNCHANGED <<received, events>>
    /\ UNCHANGED <<handler, pc, ret, closes, bodyClosed, cancelled, endedBy, sentAfterClose>>
    /\ UNCHANGED parserVars
    /\ UNCHANGED aggregatorVars
    /\ UNCHANGED requestVars
    /\ UNCHANGED lateVars

\* the caller leaves its receive loop for good
StopReceiving ==
    /\ Started
    /\ consumer = "active"
    /\ consumer' = "stopped"
    /\ UNCHANGED <<handler, pc, ret, events, closes, bodyClosed, cancelled, received,
                   endedBy, sentAfterClose>>
    /\ UNCHANGED parserVars
    /\ UNCHANGED aggregatorVars
    /\ UNCHANGED requestVars
    /\ UNCHANGED lateVars

\* the caller cancels the context it passed to Stream
Cancel ==
    /\ Started
    /\ ~cancelled
    /\ cancelled' = TRUE
    /\ UNCHANGED <<handler, pc, ret, events, closes, bodyClosed, consumer, received,
                   endedBy, sentAfterClose>>
    /\ UNCHANGED parserVars
    /\ UNCHANGED aggregatorVars
    /\ UNCHANGED requestVars
    /\ UNCHANGED lateVars

Parser ==
    \/ \E line \in LinesFor(handler) : ScanLine(line)
    \/ \E reason \in {"eof", "read_error", "cancelled", "too_long"} : ScanStop(reason)
    \/ Send

Next ==
    \/ \E reqErr \in {"none", "build", "marshal"}, transportErr \in BOOLEAN,
          resp \in StreamResponses : Stream(reqErr, transportErr, resp)
    \/ \E line \in LinesFor(handler) : ScanLine(line)
    \/ \E reason \in {"eof", "read_error", "cancelled", "too_long"} : ScanStop(reason)
    \/ Send
    \/ Recv
    \/ StopReceiving
    \/ Cancel

Spec == Init /\ [][Next]_vars

\* the scheduler runs the parser task and the receive loop whenever they can
\* take a step, and the server goes on to the end of the body
LiveSpec == Spec /\ WF_vars(Parser) /\ WF_vars(Recv)

(***************************************************************************)
(* llm.Message                                                             *)
(***************************************************************************)
\* Message.GetContent: Content when set, else the text of the first TextBlock
RECURSIVE FirstText(_)
FirstText(blocks) ==
    IF blocks = <<>> THEN ""
    ELSE IF Head(blocks).block = "text" THEN Head(blocks).Text
    ELSE FirstText(Tail(blocks))

GetContent(m) == IF m.Content # "" THEN m.Content ELSE FirstText(m.ContentBlocks)

(***************************************************************************)
(* StreamParser: the aggregation of a stream of events into one message    *)
(***************************************************************************)
\* &toolBuffer{}
toolBuffer == [id |-> "", name |-> "", argsBuf |-> ""]

\* handleToolCall that assigns the id of every delta, empty or not
handleToolCallAssignID(p, tc) ==
    IF tc = <<>>
    THEN p
    ELSE LET d == tc[1]
             buf == IF d.Index \in DOMAIN p.toolBufs THEN p.toolBufs[d.Index] ELSE toolBuffer
             filled == [id |-> d.ID,
                        name |-> IF d.Name # "" THEN d.Name ELSE buf.name,
                        argsBuf |-> IF d.ArgumentsDelta # ""
                                    THEN buf.argsBuf \o d.ArgumentsDelta ELSE buf.argsBuf]
         IN [p EXCEPT !.toolBufs = [k \in DOMAIN p.toolBufs \cup {d.Index} |->
                                       IF k = d.Index THEN filled ELSE p.toolBufs[k]],
                      !.maxIndex = IF d.Index > p.maxIndex THEN d.Index ELSE p.maxIndex]

\* StreamParser.handleToolCall; tc is chunk.ToolCall
handleToolCall(p, tc) ==
    IF tc = <<>>
    THEN p
    ELSE LET d == tc[1]
             buf == IF d.Index \in DOMAIN p.toolBufs THEN p.toolBufs[d.Index] ELSE toolBuffer
             filled == [id |-> IF d.ID # "" THEN d.ID ELSE buf.id,
                        name |-> IF d.Name # "" THEN d.Name ELSE buf.name,
                        argsBuf |-> IF d.ArgumentsDelta # ""
                                    THEN buf.argsBuf \o d.ArgumentsDelta ELSE buf.argsBuf]
         IN [p EXCEPT !.toolBufs = [k \in DOMAIN p.toolBufs \cup {d.Index} |->
                                       IF k = d.Index THEN filled ELSE p.toolBufs[k]],
                      !.maxIndex = IF d.Index > p.maxIndex THEN d.Index ELSE p.maxIndex]

\* Parse that keeps only the latest text delta
ParseSwitchTextReplace(st, chunk) ==
    CASE chunk.Type = EventTypeText ->
           [st EXCEPT !.p.textBuf = chunk.TextDelta]
      [] chunk.Type = EventTypeReasoning ->
           IF chunk.Reasoning # <<>>
           THEN [st EXCEPT !.p.reasoningBuf = st.p.reasoningBuf \o chunk.Reasoning[1].ThoughtDelta]
           ELSE st
      [] chunk.Type = EventTypeToolCall ->
           [st EXCEPT !.p = handleToolCall(st.p, chunk.ToolCall)]
      [] chunk.Type = EventTypeDone ->
           [st EXCEPT !.finishReason = chunk.FinishReason]
      [] OTHER -> st

\* Parse where the first done chunk fixes the finish reason
ParseSwitchFirstDone(st, chunk) ==
    CASE chunk.Type = EventTypeText ->
           [st EXCEPT !.p.textBuf = st.p.textBuf \o chunk.TextDelta]
      [] chunk.Type = EventTypeReasoning ->
           IF chunk.Reasoning # <<>>
           THEN [st EXCEPT !.p.reasoningBuf = st.p.reasoningBuf \o chunk.Reasoning[1].ThoughtDelta]
           ELSE st
      [] chunk.Type = EventTypeToolCall ->
           [st EXCEPT !.p = handleToolCall(st.p, chunk.ToolCall)]
      [] chunk.Type = EventTypeDone ->
           IF st.finishReason = "" THEN [st EXCEPT !.finishReason = chunk.FinishReason] ELSE st
      [] OTHER -> st

\* the body of the loop of StreamParser.Parse: the switch on chunk.Type;
\* st is [p, finishReason]
ParseSwitch(st, chunk) ==
    CASE chunk.Type = EventTypeText ->
           [st EXCEPT !.p.textBuf = st.p.textBuf \o chunk.TextDelta]
      [] chunk.Type = EventTypeReasoning ->
           IF chunk.Reasoning # <<>>
           THEN [st EXCEPT !.p.reasoningBuf = st.p.reasoningBuf \o chunk.Reasoning[1].ThoughtDelta]
           ELSE st
      [] chunk.Type = EventTypeToolCall ->
           [st EXCEPT !.p = handleToolCall(st.p, chunk.ToolCall)]
      [] chunk.Type = EventTypeDone ->
           [st EXCEPT !.finishReason = chunk.FinishReason]
      [] OTHER -> st

\* json.Unmarshal([]byte(argsBuf), &args) on a nil map[string]any: the decoded
\* object, or the map left nil when the text is not a JSON object
UnmarshalArgs(argsBuf) ==
    CASE argsBuf = "{}" -> [err |-> FALSE, args |-> JObj(<<>>)]
      [] argsBuf = "{\"x\":1}" -> [err |-> FALSE, args |-> JObj([x |-> JNum(1)])]
      [] argsBuf = "null" -> [err |-> FALSE, args |-> JNull]
      [] OTHER -> [err |-> TRUE, args |-> JNull]

TextBlock(text) == [block |-> "text", Text |-> text]

ToolCall(id, name, input) == [block |-> "tool_use", ID |-> id, Name |-> name, Input |-> input]

\* the loop body that also emits the buckets that never received an id
ToolCallAtKeepNoID(p, i) ==
    IF i \notin DOMAIN p.toolBufs
    THEN <<>>
    ELSE <<ToolCall(p.toolBufs[i].id, p.toolBufs[i].name,
                    UnmarshalArgs(p.toolBufs[i].argsBuf).args)>>

\* the loop body that drops a tool call whose arguments do not decode
ToolCallAtDropBadArgs(p, i) ==
    IF i \notin DOMAIN p.toolBufs \/ p.toolBufs[i].id = ""
       \/ UnmarshalArgs(p.toolBufs[i].argsBuf).err
    THEN <<>>
    ELSE <<ToolCall(p.toolBufs[i].id, p.toolBufs[i].name,
                    UnmarshalArgs(p.toolBufs[i].argsBuf).args)>>

\* buildMessage, the body of `for i := 0; i <= p.maxIndex; i++`: the blocks
\* appended at index i
ToolCallAt(p, i) ==
    IF i \notin DOMAIN p.toolBufs \/ p.toolBufs[i].id = ""
    THEN <<>>
    ELSE <<ToolCall(p.toolBufs[i].id, p.toolBufs[i].name,
                    UnmarshalArgs(p.toolBufs[i].argsBuf).args)>>

\* buildMessage, the loop from index i on
RECURSIVE ToolCallsFrom(_, _)
ToolCallsFrom(p, i) ==
    IF i > p.maxIndex THEN <<>> ELSE ToolCallAt(p, i) \o ToolCallsFrom(p, i + 1)

RoleAssistant == "assistant"

\* buildMessage that appends the text block after the tool calls
buildMessageTextLast(p) ==
    [Role |-> RoleAssistant, Content |-> "",
     ContentBlocks |-> ToolCallsFrom(p, 0)
                       \o (IF p.textBuf # "" THEN <<TextBlock(p.textBuf)>> ELSE <<>>)]

\* StreamParser.buildMessage
buildMessage(p) ==
    [Role |-> RoleAssistant, Content |-> "",
     ContentBlocks |-> (IF p.textBuf # "" THEN <<TextBlock(p.textBuf)>> ELSE <<>>)
                       \o ToolCallsFrom(p, 0)]

\* the StreamResult that Parse returns once its stream is closed
StreamResult(st) ==
    [Message |-> buildMessage(st.p), FinishReason |-> st.finishReason,
     Reasoning |-> st.p.reasoningBuf]

\* the loop of Parse over the chunks of a closed stream, from state st
RECURSIVE ParseLoop(_, _)
ParseLoop(st, stream) ==
    IF stream = <<>> THEN st ELSE ParseLoop(ParseSwitch(st, Head(stream)), Tail(stream))

\* ParseStream: NewStreamParser().Parse(stream)
ParseStream(stream) ==
    StreamResult(ParseLoop([p |-> NewStreamParser, finishReason |-> ""], stream))

(***************************************************************************)
(* StreamParser.Parse run on a stream of chunks                            *)
(***************************************************************************)
\* the chunks a stream can carry: text, reasoning and thinking deltas, done
\* events, a tool_call event without a delta, and tool-call deltas of the
\* buckets 0, 1, 2 and -1 (bucket 1 never receives an id)
Chunks ==
    {TextEvent("a"), TextEvent("b"), TextEvent("ab"), TextEvent(""),
     ReasoningEvent(EventTypeReasoning, "r"), ReasoningEvent(EventTypeThinking, "t"),
     DoneEvent("stop"), DoneEvent("tool_calls"),
     Event(EventTypeToolCall),
     ToolCallEvent(ToolCallDelta(0, "c1", "f", "")),
     ToolCallEvent(ToolCallDelta(0, "", "", "{\"x\":")),
     ToolCallEvent(ToolCallDelta(0, "", "", "1}")),
     ToolCallEvent(ToolCallDelta(0, "c3", "", "")),
     ToolCallEvent(ToolCallDelta(1, "", "", "{}")),
     ToolCallEvent(ToolCallDelta(2, "c2", "g", "{}")),
     ToolCallEvent(ToolCallDelta(0 - 1, "c4", "h", "{}"))}

\* one iteration of `for chunk := range stream` in StreamParser.Parse
ParseChunk(chunk) ==
    /\ Len(chunks) < MaxChunks
    /\ LET st == ParseSwitch([p |-> streamParser, finishReason |-> finishReason], chunk) IN
       /\ streamParser' = st.p
       /\ finishReason' = st.finishReason
    /\ chunks' = Append(chunks, chunk)
    /\ UNCHANGED streamVars
    /\ UNCHANGED requestVars
    /\ UNCHANGED lateVars

StreamParserInit == Init /\ handler = "openai"

StreamParserNext == \E chunk \in Chunks : ParseChunk(chunk)

StreamParserSpec == StreamParserInit /\ [][StreamParserNext]_vars

(***************************************************************************)
(* Properties                                                              *)
(***************************************************************************)
RECURSIVE Concat(_)
Concat(ss) == IF ss = <<>> THEN <<>> ELSE Head(ss) \o Concat(Tail(ss))

Ended == pc \in {"done", "panicked"}

\* every event the parser has put or is about to put on the channel
AllEvents == received \o events \o pending

\* every event that was put on the channel
Delivered == received \o events

HasErrorEvent == \E i \in 1..Len(Delivered) : Delivered[i].Type = EventTypeError

\* C1: however parsing ends (end of input, terminator, stop signal, read
\* error, cancellation), the event channel is closed exactly once, it is
\* closed only when parsing has ended, and nothing is sent on it afterwards.
C1_ClosedExactlyOnce ==
    /\ closes <= 1
    /\ Ended <=> closes = 1
    /\ ~sentAfterClose
    /\ consumer = "finished" => closes = 1 /\ events = <<>>

C1_Witness ==
    /\ pc = "done"
    /\ endedBy = "cancelled"
    /\ closes = 1
    /\ received # <<>>

\* C2: once the caller's context is cancelled, the event channel is
\* eventually closed.
C2_CancelLeadsToClose == cancelled ~> (closes = 1)

\* C3: when the caller has cancelled and stopped receiving, the parser is not
\* blocked on a send to the full channel (nothing could ever unblock it).
C3_NoSendBlockedForever ==
    ~(cancelled /\ consumer = "stopped" /\ pc = "send" /\ Len(events) = ChanCap)

\* C4: a started stream whose consumer keeps receiving is eventually closed:
\* the producer ends, the channel is closed and the response body is closed.
C4_StreamEventuallyClosed ==
    [](Started => <>((Ended /\ closes = 1 /\ bodyClosed) \/ consumer = "stopped"))

C4_Witness ==
    /\ pc = "done"
    /\ endedBy \in {"eof", "terminator", "stop"}
    /\ closes = 1
    /\ bodyClosed
    /\ consumer = "finished"
    /\ Len(received) > ChanCap

\* C5: when parsing has ended, an error event was delivered if and only if
\* reading the response body failed.
C5_ErrorEventIffReadFailed ==
    (pc = "done" /\ endedBy \in {"eof", "terminator", "stop", "read_error"})
        => (HasErrorEvent <=> endedBy = "read_error")

\* the events of all HandleEvent calls, in call order
CallEvents == Concat([k \in 1..Len(calls) |-> calls[k].events])

IsTerminator(line) ==
    line.prefix = DataPrefix /\ ~line.long /\ ShouldStopOnData(handler, line.rest)

TerminatorSeen == \E i \in 1..Len(body) : IsTerminator(body[i])

\* what the stream has to deliver: the handler's events in line order, then
\* the terminator's done event
Produced == CallEvents \o (IF TerminatorSeen THEN <<DoneEvent("stop")>> ELSE <<>>)

\* C6: the events on their way to the caller are, in order, the events the
\* handler returned for the lines processed (plus the terminator's done
\* event): none is dropped, duplicated or reordered, and a caller that reads
\* the channel to its close has received exactly these.
C6_EventsInOrder ==
    /\ AllEvents = Produced
    /\ consumer = "finished" => received = Produced

C6_Witness ==
    /\ Len(events) = ChanCap
    /\ pc = "send"
    /\ Len(received) >= 1
    /\ Len(calls) >= 3

\* C7: a data line on which ShouldStopOnData is true is the last line
\* processed: it yields exactly one done event with reason stop, after which
\* the parser returns and closes the channel, and no later line reaches the
\* handler.
C7_TerminatorEndsStream ==
    \A i \in 1..Len(body) : IsTerminator(body[i]) =>
        /\ i = Len(body)
        /\ pc \in {"send", "done"}
        /\ \A k \in 1..Len(calls) : calls[k].line < i
        /\ Len(AllEvents) = Len(CallEvents) + 1
        /\ AllEvents[Len(AllEvents)] = DoneEvent("stop")
        /\ pc = "send" => returnAfter /\ pending = <<DoneEvent("stop")>>
        /\ pc = "done" => closes = 1 /\ endedBy = "terminator" /\ pending = <<>>

C7_Witness ==
    /\ handler = "openai"
    /\ pc = "done"
    /\ endedBy = "terminator"
    /\ Len(calls) >= 1
    /\ consumer = "finished"
    /\ received[Len(received)] = DoneEvent("stop")

\* C8: a HandleEvent call that returns stop=true is the last one: its events
\* are forwarded, then the parser returns and closes the channel, and no later
\* line is decoded.
C8_HandlerStopEndsStream ==
    \A k \in 1..Len(calls) : calls[k].stop =>
        /\ k = Len(calls)
        /\ calls[k].line = Len(body)
        /\ pc \in {"send", "done"}
        /\ AllEvents = CallEvents
        /\ pc = "send" => returnAfter
        /\ pc = "done" => closes = 1 /\ endedBy = "stop" /\ Delivered = CallEvents

C8_Witness ==
    /\ handler = "gemini"
    /\ pc = "done"
    /\ endedBy = "stop"
    /\ Len(calls) >= 2
    /\ calls[Len(calls)].stop
    /\ consumer = "finished"
    /\ received[Len(received)] = DoneEvent("stop")

RemoveAt(s, i) == SubSeq(s, 1, i - 1) \o SubSeq(s, i + 1, Len(s))

\* Parse run on a whole body from line i on: the events sent and the handler
\* calls made
RECURSIVE ParseFrom(_, _, _, _, _)
ParseFrom(h, lines, i, cur, counter) ==
    IF i > Len(lines) \/ lines[i].long THEN [events |-> <<>>, calls |-> <<>>]
    ELSE LET r == ProcessLine(h, cur, counter, lines[i])
             c == [k \in 1..Len(r.call) |->
                     [eventType |-> r.call[k].eventType, data |-> r.call[k].data]]
         IN IF r.panic THEN [events |-> <<>>, calls |-> c]
            ELSE IF r.return THEN [events |-> r.send, calls |-> c]
            ELSE LET rest == ParseFrom(h, lines, i + 1, r.currentEvent, r.counter)
                 IN [events |-> r.send \o rest.events, calls |-> c \o rest.calls]

CallsMade == [k \in 1..Len(calls) |-> [eventType |-> calls[k].eventType, data |-> calls[k].data]]

\* line i of the body was passed over: no call for it, the stream did not end
\* at it, and the events and calls are those of the body without it
PassedOver(i) ==
    /\ \A k \in 1..Len(calls) : calls[k].line # i
    /\ i = Len(body) => (pc = "scan" \/ endedBy \in {"eof", "read_error", "cancelled"})
    /\ LET p == ParseFrom(handler, RemoveAt(body, i), 1, "", 0) IN
       /\ AllEvents = p.events
       /\ CallsMade = p.calls

RECURSIVE FrameEventType(_, _)
FrameEventType(lines, n) ==
    IF n <= 1 THEN ""
    ELSE IF lines[n - 1] = BlankLine THEN ""
    ELSE IF lines[n - 1].prefix = EventPrefix THEN lines[n - 1].rest
    ELSE FrameEventType(lines, n - 1)

\* C10: every HandleEvent call gets the event type of its own frame.
C10_EventTypeOfFrame ==
    \A k \in 1..Len(calls) : calls[k].eventType = FrameEventType(body, calls[k].line)

(***************************************************************************)
(* Parsing and aggregating                                                 *)
(***************************************************************************)
HasLine(line) == \E i \in 1..Len(body) : body[i] = line

\* C11: for an OpenAI stream in which a frame with finish_reason R (here
\* "length") is followed by the [DONE] terminator line, aggregating the events
\* the caller received up to the close of the channel yields finish_reason R.
C11_FinishReasonOfFrameAggregated ==
    (/\ handler = "openai"
     /\ HasLine(DataLine("oa_finish"))
     /\ body[Len(body)] = DataLine(DoneText)
     /\ consumer = "finished")
        => ParseStream(received).FinishReason = "length"

\* C12: for a Gemini stream whose frames are a text part marked thought=true,
\* a plain text part and a frame with finishReason STOP, aggregating the
\* events the caller received yields the thought text as reasoning, the plain
\* text as text, and finish_reason "stop".
C12_GeminiThoughtAggregated ==
    (/\ handler = "gemini"
     /\ body = <<DataLine("gm_thought"), DataLine("gm_text"), DataLine("gm_finish")>>
     /\ consumer = "finished")
        => /\ ParseStream(received).Reasoning = "T"
           /\ ParseStream(received).Message.ContentBlocks = <<TextBlock("A")>>
           /\ ParseStream(received).FinishReason = "stop"

DoneCount(evs) == Cardinality({i \in 1..Len(evs) : evs[i].Type = EventTypeDone})

\* C13: with the OpenAI handler, a frame with a non-empty finish_reason yields
\* one done event with that reason and does not stop the parser: every data
\* line that follows it up to [DONE] is still decoded and handed to the
\* handler, and its events are delivered with the others.
C13_OpenAIFinishDoesNotStop ==
    handler = "openai" =>
        \A k \in 1..Len(calls) : calls[k].data = "oa_finish" =>
            /\ calls[k].events = <<DoneEvent("length")>>
            /\ ~calls[k].stop
            /\ endedBy # "stop"
            /\ \A i \in (calls[k].line + 1)..Len(body) :
                   (/\ body[i].prefix = DataPrefix
                    /\ ~body[i].long
                    /\ ~IsTerminator(body[i])
                    /\ ~Unmarshal(body[i].rest).err)
                       => \E n \in (k + 1)..Len(calls) : /\ calls[n].line = i
                                                         /\ calls[n].data = body[i].rest
            /\ AllEvents = Produced
            /\ consumer = "finished" => received = Produced

C13_Witness ==
    /\ handler = "openai"
    /\ body = <<DataLine("oa_finish"), DataLine("oa_text"), DataLine(DoneText)>>
    /\ consumer = "finished"
    /\ received = <<DoneEvent("length"), TextEvent("Hi"), DoneEvent("stop")>>

\* C14: with the Gemini handler, the first frame with a non-empty finishReason
\* yields exactly one done event carrying the mapped reason (STOP gives
\* "stop"), after which the parser stops: it is the last line processed, the
\* stream carries no other done event, and the channel is closed once the
\* event is sent.
C14_GeminiFinishStops ==
    handler = "gemini" =>
        \A k \in 1..Len(calls) : calls[k].data = "gm_finish" =>
            /\ calls[k].events = <<DoneEvent("stop")>>
            /\ calls[k].stop
            /\ k = Len(calls)
            /\ calls[k].line = Len(body)
            /\ DoneCount(AllEvents) = 1
            /\ AllEvents[Len(AllEvents)] = DoneEvent("stop")
            /\ pc \in {"send", "done"}
            /\ pc = "done" => closes = 1 /\ pending = <<>>

C14_Witness ==
    /\ handler = "gemini"
    /\ body = <<DataLine("gm_text"), DataLine("gm_finish")>>
    /\ pc = "done"
    /\ closes = 1
    /\ consumer = "finished"
    /\ received = <<TextEvent("A"), DoneEvent("stop")>>

\* the tool-call deltas among the events evs
ToolCallDeltas(evs) ==
    {evs[i].ToolCall[1] : i \in {n \in 1..Len(evs) :
                                    evs[n].Type = EventTypeToolCall /\ evs[n].ToolCall # <<>>}}

ToolCallBlocks(blocks) == SelectSeq(blocks, LAMBDA b : b.block = "tool_use")

\* C15: within one stream, all events carrying a given tool_call.index belong
\* to one tool call: two tool calls with different ids never share an index,
\* also across frames, so that the message aggregated from the stream has one
\* ToolCall per tool call the model made.
C15_IndexNamesOneToolCall ==
    /\ \A d1, d2 \in ToolCallDeltas(AllEvents) :
           (d1.Index = d2.Index /\ d1.ID # "" /\ d2.ID # "") => d1.ID = d2.ID
    /\ consumer = "finished" =>
           Len(ToolCallBlocks(ParseStream(received).Message.ContentBlocks))
               = Cardinality({d.ID : d \in ToolCallDeltas(received)} \ {""})

(***************************************************************************)
(* Aggregation                                                             *)
(***************************************************************************)
\* the tool-call deltas of index k among the chunks taken, in arrival order
DeltasOf(k) ==
    LET withDelta == SelectSeq(chunks, LAMBDA c : c.Type = EventTypeToolCall
                                                   /\ c.ToolCall # <<>>
                                                   /\ c.ToolCall[1].Index = k)
    IN [n \in 1..Len(withDelta) |-> withDelta[n].ToolCall[1]]

IndexesSeen == {d.Index : d \in ToolCallDeltas(chunks)}

RECURSIVE LastNonEmpty(_)
LastNonEmpty(ss) ==
    IF ss = <<>> THEN ""
    ELSE IF ss[Len(ss)] # "" THEN ss[Len(ss)]
    ELSE LastNonEmpty(SubSeq(ss, 1, Len(ss) - 1))

RECURSIVE ConcatText(_)
ConcatText(ss) == IF ss = <<>> THEN "" ELSE Head(ss) \o ConcatText(Tail(ss))

\* C16: after any sequence of chunks, the aggregator has one bucket per index
\* seen, holding the last non-empty id and the last non-empty name observed
\* for that index and the concatenation of that index's arguments_delta
\* fragments in arrival order, however the indexes are interleaved.
C16_BucketOfIndex ==
    /\ DOMAIN streamParser.toolBufs = IndexesSeen
    /\ \A k \in IndexesSeen :
           LET ds == DeltasOf(k) IN
           /\ streamParser.toolBufs[k].id = LastNonEmpty([n \in 1..Len(ds) |-> ds[n].ID])
           /\ streamParser.toolBufs[k].name = LastNonEmpty([n \in 1..Len(ds) |-> ds[n].Name])
           /\ streamParser.toolBufs[k].argsBuf
                  = ConcatText([n \in 1..Len(ds) |-> ds[n].ArgumentsDelta])

C16_Witness ==
    /\ Len(chunks) = 4
    /\ chunks[1] = ToolCallEvent(ToolCallDelta(0, "c1", "f", ""))
    /\ chunks[2] = ToolCallEvent(ToolCallDelta(0, "", "", "{\"x\":"))
    /\ chunks[3] = ToolCallEvent(ToolCallDelta(2, "c2", "g", "{}"))
    /\ chunks[4] = ToolCallEvent(ToolCallDelta(0, "", "", "1}"))
    /\ streamParser.toolBufs[0] = [id |-> "c1", name |-> "f", argsBuf |-> "{\"x\":1}"]
    /\ streamParser.toolBufs[2] = [id |-> "c2", name |-> "g", argsBuf |-> "{}"]

\* the message Parse would return if the stream were closed now
Blocks == buildMessage(streamParser).ContentBlocks

\* the set S of integers in ascending order
RECURSIVE Ascending(_)
Ascending(S) ==
    IF S = {} THEN <<>>
    ELSE LET m == CHOOSE x \in S : \A y \in S : x <= y IN <<m>> \o Ascending(S \ {m})

\* the buckets that received a non-empty id
Identified == {k \in DOMAIN streamParser.toolBufs : streamParser.toolBufs[k].id # ""}

TextArrived == \E i \in 1..Len(chunks) : chunks[i].Type = EventTypeText /\ chunks[i].TextDelta # ""

\* C17: the aggregated message lists its tool calls in ascending order of
\* bucket index, whatever the arrival order, and its single TextBlock, present
\* exactly when text arrived, comes before all tool calls.
C17_BlocksInIndexOrder ==
    LET order == Ascending({k \in Identified : k >= 0})
        tools == ToolCallBlocks(Blocks) IN
    /\ \A n \in 1..Len(tools) :
           /\ n <= Len(order)
           /\ tools[n].ID = streamParser.toolBufs[order[n]].id
           /\ tools[n].Name = streamParser.toolBufs[order[n]].name
    /\ IF TextArrived
       THEN /\ Blocks # <<>>
            /\ Blocks[1] = TextBlock(streamParser.textBuf)
            /\ \A n \in 2..Len(Blocks) : Blocks[n].block = "tool_use"
       ELSE \A n \in 1..Len(Blocks) : Blocks[n].block = "tool_use"

C17_Witness ==
    /\ Len(chunks) = 3
    /\ chunks[1] = ToolCallEvent(ToolCallDelta(2, "c2", "g", "{}"))
    /\ chunks[2] = ToolCallEvent(ToolCallDelta(0, "c1", "f", ""))
    /\ chunks[3] = TextEvent("a")
    /\ Blocks = <<TextBlock("a"), ToolCall("c1", "f", JNull), ToolCall("c2", "g", JObj(<<>>))>>

\* the tool calls of the message made from bucket k
BlocksOf(k) ==
    {n \in 1..Len(Blocks) : /\ Blocks[n].block = "tool_use"
                            /\ Blocks[n].ID = streamParser.toolBufs[k].id}

\* C18 as stated: the aggregated message contains exactly one ToolCall for
\* every bucket that received a non-empty id, whatever its index, and none
\* for a bucket whose id never arrived.
C18_OneToolCallPerIdentifiedBucket ==
    /\ \A k \in Identified : Cardinality(BlocksOf(k)) = 1
    /\ Len(ToolCallBlocks(Blocks)) = Cardinality(Identified)

\* C18, amended: the aggregated message contains exactly one ToolCall for
\* every bucket of non-negative index that received a non-empty id, and none
\* for a bucket whose id never arrived.
C18_OneToolCallPerIdentifiedIndex ==
    /\ \A k \in Identified : k >= 0 => Cardinality(BlocksOf(k)) = 1
    /\ Len(ToolCallBlocks(Blocks)) = Cardinality({k \in Identified : k >= 0})

C18_Witness ==
    /\ DOMAIN streamParser.toolBufs = {0, 1, 2}
    /\ Identified = {0, 2}
    /\ Blocks = <<ToolCall("c1", "f", JNull), ToolCall("c2", "g", JObj(<<>>))>>

\* the argument texts that are JSON objects
ObjectTexts == {"{}", "{\"x\":1}"}

\* C19: a bucket whose concatenated fragments do not parse as a JSON object
\* still yields its ToolCall, with its id and name and a null input; the
\* failure touches no other bucket (a bucket whose fragments do parse keeps its
\* decoded input) and the message is still built.
C19_BadArgumentsNullInput ==
    /\ \A k \in Identified : k >= 0 =>
           LET buf == streamParser.toolBufs[k] IN
           \E n \in 1..Len(Blocks) :
               /\ Blocks[n].block = "tool_use"
               /\ Blocks[n].ID = buf.id
               /\ Blocks[n].Name = buf.name
               /\ buf.argsBuf \notin ObjectTexts => Blocks[n].Input = JNull
               /\ buf.argsBuf = "{}" => Blocks[n].Input = JObj(<<>>)
               /\ buf.argsBuf = "{\"x\":1}" => Blocks[n].Input = JObj([x |-> JNum(1)])
    /\ buildMessage(streamParser).Role = RoleAssistant

C19_Witness ==
    /\ 0 \in Identified
    /\ streamParser.toolBufs[0].argsBuf = "{\"x\":"
    /\ Blocks = <<ToolCall("c1", "f", JNull), ToolCall("c2", "g", JObj(<<>>))>>

RECURSIVE LastDoneReason(_)
LastDoneReason(evs) ==
    IF evs = <<>> THEN ""
    ELSE IF evs[Len(evs)].Type = EventTypeDone THEN evs[Len(evs)].FinishReason
    ELSE LastDoneReason(SubSeq(evs, 1, Len(evs) - 1))

\* C20: for any sequence of events, the aggregator's finish_reason is the
\* reason of the last done event of the sequence, and the empty string when
\* the sequence has no done event.
C20_FinishReasonOfLastDone ==
    /\ finishReason = LastDoneReason(chunks)
    /\ StreamResult([p |-> streamParser, finishReason |-> finishReason]).FinishReason
           = LastDoneReason(chunks)
    /\ DoneCount(chunks) = 0 => finishReason = ""

C20_Witness ==
    /\ Len(chunks) = 3
    /\ chunks[1] = DoneEvent("tool_calls")
    /\ chunks[2] = DoneEvent("stop")
    /\ chunks[3] = TextEvent("a")
    /\ finishReason = "stop"

\* the text deltas among the chunks taken, in arrival order
TextDeltas ==
    LET texts == SelectSeq(chunks, LAMBDA c : c.Type = EventTypeText)
    IN [n \in 1..Len(texts) |-> texts[n].TextDelta]

TextBlocks(blocks) == SelectSeq(blocks, LAMBDA b : b.block = "text")

\* C21: a stream that delivers a text as one text delta per substring of a
\* partition aggregates to a message whose text is the text partitioned, held
\* in a single TextBlock, however the text was split and whatever other
\* events are interleaved (no TextBlock only when the text is empty).
C21_TextOfPartition ==
    LET text == ConcatText(TextDeltas) IN
    /\ GetContent(buildMessage(streamParser)) = text
    /\ TextBlocks(Blocks) = IF text = "" THEN <<>> ELSE <<TextBlock(text)>>

C21_Witness ==
    /\ Len(chunks) = 4
    /\ chunks[1] = TextEvent("a")
    /\ chunks[2] = ToolCallEvent(ToolCallDelta(0, "c1", "f", ""))
    /\ chunks[3] = TextEvent("")
    /\ chunks[4] = TextEvent("b")
    /\ Blocks = <<TextBlock("ab"), ToolCall("c1", "f", JNull)>>
    /\ buildMessage(ParseLoop([p |-> NewStreamParser, finishReason |-> ""],
                              <<TextEvent("ab"), chunks[2]>>).p) = buildMessage(streamParser)

(***************************************************************************)
(* Neutral messages                                                        *)
(***************************************************************************)
RoleSystem == "system"
RoleUser == "user"
RoleTool == "tool"

ToolResultBlock(toolUseID, content) ==
    [block |-> "tool_result", ToolUseID |-> toolUseID, Content |-> content, IsError |-> FALSE]

ThinkingBlock(thinking) == [block |-> "thinking", Thinking |-> thinking]

Message(role, content, blocks) == [Role |-> role, Content |-> content, ContentBlocks |-> blocks]

\* the elements of s that satisfy Keep, each translated by Conv
MapKept(s, Keep(_), Conv(_)) ==
    LET kept == SelectSeq(s, Keep) IN [n \in 1..Len(kept) |-> Conv(kept[n])]

(***************************************************************************)
(* OpenAI adapter                                                          *)
(***************************************************************************)
\* hasToolResults that looks at the first block only
hasToolResultsFirst(blocks) == blocks # <<>> /\ blocks[1].block = "tool_result"

hasToolResults(blocks) == \E i \in 1..Len(blocks) : blocks[i].block = "tool_result"

extractTextContent(msg) ==
    IF \E i \in 1..Len(msg.ContentBlocks) : msg.ContentBlocks[i].block = "text"
    THEN FirstText(msg.ContentBlocks)
    ELSE msg.Content

\* json.Marshal(tu.Input): "null" for the nil map
MarshalInput(input) == IF input = JNull THEN "null" ELSE Marshal(input)

extractToolCalls(blocks) ==
    MapKept(blocks, LAMBDA b : b.block = "tool_use",
            LAMBDA tu : JObj([id |-> JStr(tu.ID), type |-> JStr("function"),
                              function |-> JObj([name |-> JStr(tu.Name),
                                                 arguments |-> JStr(MarshalInput(tu.Input))])]))

\* ConvertToAPI, the loop body: the wire messages appended for msg
OpenAIConvertMessage(msg) ==
    IF msg.Role = RoleSystem THEN <<>>
    ELSE IF hasToolResults(msg.ContentBlocks)
    THEN MapKept(msg.ContentBlocks, LAMBDA b : b.block = "tool_result",
                 LAMBDA tr : JObj([role |-> JStr("tool"), tool_call_id |-> JStr(tr.ToolUseID),
                                   content |-> JStr(tr.Content)]))
    ELSE LET content == extractTextContent(msg)
             toolCalls == IF msg.Role = RoleAssistant
                          THEN extractToolCalls(msg.ContentBlocks) ELSE <<>>
         IN <<JObj(("role" :> JStr(msg.Role))
                   @@ (IF content # "" \/ toolCalls # <<>>
                       THEN ("content" :> JStr(content)) ELSE <<>>)
                   @@ (IF toolCalls # <<>>
                       THEN ("tool_calls" :> JArr(toolCalls)) ELSE <<>>))>>

\* what ConvertFromAPI returns; panic: an unchecked type assertion failed
Converted(msg, reason) == [msg |-> msg, finishReason |-> reason, panic |-> FALSE]

ConvertPanic == [msg |-> Message(RoleAssistant, "", <<>>), finishReason |-> "", panic |-> TRUE]

OpenAIConvertFromAPI(resp) ==
    LET choices == Field(resp, "choices") IN
    IF choices.t # "arr" \/ Len(choices.a) = 0
    THEN Converted(Message(RoleAssistant, "", <<>>), "")
    ELSE LET choice == choices.a[1] IN
    IF choice.t # "obj" THEN ConvertPanic
    ELSE LET messageData == Field(choice, "message")
             content == GetString(Field(messageData, "content"))
             toolCalls == Field(messageData, "tool_calls")
             Bad(tc) == tc.t # "obj" \/ Field(tc, "function").t # "obj"
             Call(tc) ==
                 LET fn == Field(tc, "function")
                     args == IF Field(fn, "arguments").t = "str"
                             THEN UnmarshalArgs(Field(fn, "arguments").s).args ELSE JNull
                 IN ToolCall(GetString(Field(tc, "id")), GetString(Field(fn, "name")), args)
         IN IF toolCalls.t # "arr"
            THEN Converted(Message(RoleAssistant, content, <<>>),
                           GetString(Field(choice, "finish_reason")))
            ELSE IF \E i \in 1..Len(toolCalls.a) : Bad(toolCalls.a[i]) THEN ConvertPanic
            ELSE Converted(Message(RoleAssistant, "",
                                   (IF content # "" THEN <<TextBlock(content)>> ELSE <<>>)
                                   \o [i \in 1..Len(toolCalls.a) |-> Call(toolCalls.a[i])]),
                           GetString(Field(choice, "finish_reason")))

(***************************************************************************)
(* Anthropic adapter                                                       *)
(***************************************************************************)
\* the loop body without the test `len(content) > 0`
AnthropicConvertMessageKeepsEmpty(msg) ==
    IF msg.Role = RoleSystem THEN <<>>
    ELSE <<JObj([role |-> JStr(msg.Role),
                 content |-> JArr(IF msg.Content # ""
                                  THEN <<JObj([type |-> JStr("text"), text |-> JStr(msg.Content)])>>
                                  ELSE <<>>)])>>

\* ConvertToAPI, the loop body: the wire messages appended for msg
AnthropicConvertMessage(msg) ==
    IF msg.Role = RoleSystem THEN <<>>
    ELSE LET Block(b) ==
                 CASE b.block = "text" -> JObj([type |-> JStr("text"), text |-> JStr(b.Text)])
                   [] b.block = "tool_use" ->
                        JObj([type |-> JStr("tool_use"), id |-> JStr(b.ID),
                              name |-> JStr(b.Name), input |-> b.Input])
                   [] b.block = "tool_result" ->
                        JObj([type |-> JStr("tool_result"), tool_use_id |-> JStr(b.ToolUseID),
                              content |-> JStr(b.Content)])
             content ==
                 IF Len(msg.ContentBlocks) > 0
                 THEN MapKept(msg.ContentBlocks,
                              LAMBDA b : b.block \in {"text", "tool_use", "tool_result"}, Block)
                 ELSE IF msg.Content # ""
                 THEN <<JObj([type |-> JStr("text"), text |-> JStr(msg.Content)])>>
                 ELSE <<>>
         IN IF Len(content) > 0
            THEN <<JObj([role |-> JStr(msg.Role), content |-> JArr(content)])>>
            ELSE <<>>

AnthropicConvertFromAPI(resp) ==
    LET contentArray == IF Field(resp, "content").t = "arr" THEN Field(resp, "content").a
                        ELSE <<>>
        Known(item) == item.t = "obj" /\ GetString(Field(item, "type")) \in {"text", "tool_use"}
        Block(item) ==
            IF GetString(Field(item, "type")) = "text"
            THEN TextBlock(GetString(Field(item, "text")))
            ELSE ToolCall(GetString(Field(item, "id")), GetString(Field(item, "name")),
                          IF Field(item, "input").t = "obj" THEN Field(item, "input") ELSE JNull)
        blocks == MapKept(contentArray, Known, Block)
        texts == SelectSeq(blocks, LAMBDA b : b.block = "text")
        textContent == IF texts = <<>> THEN "" ELSE texts[Len(texts)].Text
    IN Converted(Message(RoleAssistant,
                         IF Len(blocks) = 1 /\ textContent # "" THEN textContent ELSE "",
                         blocks),
                 convertStopReason(GetString(Field(resp, "stop_reason"))))

(***************************************************************************)
(* Gemini adapter                                                          *)
(***************************************************************************)
mapRole(role) ==
    CASE role = RoleUser -> "user"
      [] role = RoleAssistant -> "model"
      [] role = RoleTool -> "function"
      [] OTHER -> role

buildParts(msg) ==
    LET Part(b) ==
            CASE b.block = "text" -> JObj([text |-> JStr(b.Text)])
              [] b.block = "tool_use" ->
                   JObj([functionCall |-> JObj([name |-> JStr(b.Name), args |-> b.Input])])
              [] b.block = "tool_result" ->
                   JObj([functionResponse |->
                            JObj([name |-> JStr(b.ToolUseID),
                                  response |-> JObj([content |-> JStr(b.Content),
                                                     error |-> JBool(b.IsError)])])])
              [] b.block = "thinking" ->
                   JObj([text |-> JStr(b.Thinking), thought |-> JBool(TRUE)])
        parts == [n \in 1..Len(msg.ContentBlocks) |-> Part(msg.ContentBlocks[n])]
    IN IF Len(parts) = 0 /\ msg.Content # ""
       THEN <<JObj([text |-> JStr(msg.Content)])>>
       ELSE parts

\* ConvertToAPI, the loop body: the wire messages appended for msg
GeminiConvertMessage(msg) ==
    IF msg.Role = RoleSystem THEN <<>>
    ELSE <<JObj(("role" :> JStr(mapRole(msg.Role)))
                @@ (IF Len(buildParts(msg)) > 0
                    THEN ("parts" :> JArr(buildParts(msg))) ELSE <<>>))>>

mapFinishReason(reason) ==
    CASE reason = "STOP" -> "stop"
      [] reason = "MAX_TOKENS" -> "length"
      [] reason = "SAFETY" -> "content_filter"
      [] reason = "RECITATION" -> "content_filter"
      [] reason = "OTHER" -> "stop"
      [] OTHER -> reason

Digits == <<"0", "1", "2", "3", "4", "5", "6", "7", "8", "9">>

\* generateToolCallID once the counter was incremented to `counter`
ToolCallID(counter) == "call_" \o Digits[(counter % 10) + 1]

\* ConvertFromAPI, the loop over parts[i..]: the blocks appended, and the
\* counter after them
RECURSIVE GeminiBlocks(_, _, _)
GeminiBlocks(parts, i, counter) ==
    IF i > Len(parts) THEN [blocks |-> <<>>, counter |-> counter]
    ELSE LET partMap == parts[i]
             thought == Field(partMap, "thought")
             text == Field(partMap, "text")
             fc == Field(partMap, "functionCall")
             textBlocks == IF text.t # "str" THEN <<>>
                           ELSE IF thought.t = "bool" /\ thought.b
                           THEN <<ThinkingBlock(text.s)>>
                           ELSE <<TextBlock(text.s)>>
             hasCall == fc.t = "obj"
             callBlocks == IF hasCall
                           THEN <<ToolCall(ToolCallID(counter + 1), GetString(Field(fc, "name")),
                                           IF Field(fc, "args").t = "obj"
                                           THEN Field(fc, "args") ELSE JNull)>>
                           ELSE <<>>
             rest == GeminiBlocks(parts, i + 1, IF hasCall THEN counter + 1 ELSE counter)
         IN [blocks |-> textBlocks \o callBlocks \o rest.blocks, counter |-> rest.counter]

\* ConvertFromAPI with the global toolCallCounter at `counter`: [res, counter]
GeminiConvertFromAPI(resp, counter) ==
    LET candidates == Field(resp, "candidates") IN
    IF candidates.t # "arr" \/ Len(candidates.a) = 0
    THEN [res |-> Converted(Message(RoleAssistant, "", <<>>), ""), counter |-> counter]
    ELSE LET candidate == candidates.a[1] IN
    IF candidate.t # "obj" THEN [res |-> ConvertPanic, counter |-> counter]
    ELSE LET reason == mapFinishReason(GetString(Field(candidate, "finishReason")))
             parts == Field(Field(candidate, "content"), "parts") IN
    IF parts.t # "arr" \/ Len(parts.a) = 0
    THEN [res |-> Converted(Message(RoleAssistant, "", <<>>), reason), counter |-> counter]
    ELSE IF \E i \in 1..Len(parts.a) : parts.a[i].t # "obj"
    THEN [res |-> ConvertPanic, counter |-> counter]
    ELSE LET r == GeminiBlocks(parts.a, 1, counter) IN
         [res |-> Converted(Message(RoleAssistant,
                                    IF Len(r.blocks) = 1 /\ r.blocks[1].block = "text"
                                    THEN r.blocks[1].Text ELSE "",
                                    r.blocks),
                            reason),
          counter |-> r.counter]

(***************************************************************************)
(* ProtocolAdapter and Transformer                                         *)
(***************************************************************************)
ConvertMessage(h, msg) ==
    CASE h = "openai" -> OpenAIConvertMessage(msg)
      [] h = "anthropic" -> AnthropicConvertMessage(msg)
      [] h = "gemini" -> GeminiConvertMessage(msg)

\* ConvertToAPI that puts the wire messages of a later message first
RECURSIVE ConvertToAPINewestFirst(_, _)
ConvertToAPINewestFirst(h, msgs) ==
    IF msgs = <<>> THEN <<>>
    ELSE ConvertToAPINewestFirst(h, Tail(msgs)) \o ConvertMessage(h, Head(msgs))

\* ProtocolAdapter.ConvertToAPI: `for _, msg := range messages`
RECURSIVE ConvertToAPI(_, _)
ConvertToAPI(h, msgs) ==
    IF msgs = <<>> THEN <<>>
    ELSE ConvertMessage(h, Head(msgs)) \o ConvertToAPI(h, Tail(msgs))

\* ProtocolAdapter.ConvertFromAPI: [res, counter]
ConvertFromAPI(h, resp, counter) ==
    CASE h = "openai" -> [res |-> OpenAIConvertFromAPI(resp), counter |-> counter]
      [] h = "anthropic" -> [res |-> AnthropicConvertFromAPI(resp), counter |-> counter]
      [] h = "gemini" -> GeminiConvertFromAPI(resp, counter)

\* ProtocolAdapter.ConvertUsage: nil, or the token counts (GetInt64 of each)
ConvertUsage(h, resp) ==
    LET usage == Field(resp, IF h = "gemini" THEN "usageMetadata" ELSE "usage")
        in == GetFloat64(Field(usage,
                  CASE h = "openai" -> "prompt_tokens" [] h = "anthropic" -> "input_tokens"
                    [] h = "gemini" -> "promptTokenCount"))
        out == GetFloat64(Field(usage,
                  CASE h = "openai" -> "completion_tokens" [] h = "anthropic" -> "output_tokens"
                    [] h = "gemini" -> "candidatesTokenCount"))
        total == IF h = "anthropic" THEN in + out
                 ELSE GetFloat64(Field(usage, IF h = "openai" THEN "total_tokens"
                                              ELSE "totalTokenCount"))
    IN IF usage.t # "obj" THEN <<>>
       ELSE <<[InputTokens |-> in, OutputTokens |-> out, TotalTokens |-> total]>>

SystemInline == "inline"
SystemSeparate == "separate"

GetSystemMessageHandling(h) == IF h = "openai" THEN SystemInline ELSE SystemSeparate

SystemMsg(prompt) == JObj([role |-> JStr("system"), content |-> JStr(prompt)])

\* BuildAPIMessages that passes the system messages of the list on, inline
BuildAPIMessagesStaleInline(h, msgs, prompt) ==
    LET stale == SelectSeq(msgs, LAMBDA m : m.Role = RoleSystem)
        apiMsgsOut == [n \in 1..Len(stale) |-> SystemMsg(stale[n].Content)]
                      \o ConvertToAPI(h, SelectSeq(msgs, LAMBDA m : m.Role # RoleSystem))
    IN IF prompt # "" /\ GetSystemMessageHandling(h) = SystemInline
       THEN <<SystemMsg(prompt)>> \o apiMsgsOut
       ELSE apiMsgsOut

\* BuildAPIMessages that prepends the system prompt whatever the policy
BuildAPIMessagesAlwaysInline(h, msgs, prompt) ==
    LET userMessages == SelectSeq(msgs, LAMBDA m : m.Role # RoleSystem)
    IN IF prompt # ""
       THEN <<SystemMsg(prompt)>> \o ConvertToAPI(h, userMessages)
       ELSE ConvertToAPI(h, userMessages)

\* Transformer.BuildAPIMessages
BuildAPIMessages(h, msgs, prompt) ==
    LET userMessages == SelectSeq(msgs, LAMBDA m : m.Role # RoleSystem)
    IN IF prompt # "" /\ GetSystemMessageHandling(h) = SystemInline
       THEN <<SystemMsg(prompt)>> \o ConvertToAPI(h, userMessages)
       ELSE ConvertToAPI(h, userMessages)

\* Transformer.ParseAPIResponse
ParseAPIResponse(h, apiResp, counter) ==
    LET c == ConvertFromAPI(h, apiResp, counter)
    IN [msg |-> c.res.msg, finishReason |-> c.res.finishReason, panic |-> c.res.panic,
        usage |-> ConvertUsage(h, apiResp), counter |-> c.counter]

(***************************************************************************)
(* Transformer.BuildAPIMessages on a list of messages, and a wire message  *)
(* read back with ConvertFromAPI                                           *)
(***************************************************************************)
Input == JObj([x |-> JNum(1)])

\* the messages a caller builds from the core's block types
Messages ==
    {Message(RoleSystem, "sys", <<>>),
     Message(RoleSystem, "", <<ToolResultBlock("c1", "r1")>>),
     Message(RoleUser, "Hello", <<>>),
     Message(RoleUser, "", <<>>),
     Message(RoleUser, "", <<TextBlock("a"), ToolResultBlock("c1", "r1")>>),
     Message(RoleTool, "", <<ToolResultBlock("c1", "r1"), ToolResultBlock("c2", "r2")>>),
     Message(RoleAssistant, "", <<TextBlock("a"), ToolCall("c1", "f", Input)>>),
     Message(RoleAssistant, "", <<ToolCall("c1", "f", Input), TextBlock("a")>>),
     Message(RoleAssistant, "", <<ToolCall("c1", "f", Input), ToolCall("c2", "g", JNull)>>),
     Message(RoleAssistant, "", <<TextBlock("a"), TextBlock("b")>>)}

MessageLists == UNION {[1..n -> Messages] : n \in 0..MaxMessages}

Prompts == {"", "You are helpful."}

\* the caller calls transformer.BuildAPIMessages(messages, systemPrompt)
CallBuildAPIMessages ==
    /\ apiMsgs = <<>>
    /\ apiMsgs' = <<BuildAPIMessages(handler, messages, systemPrompt)>>
    /\ UNCHANGED <<messages, systemPrompt, parsed, toolCallCounter, httpResponse, result, retryable>>
    /\ UNCHANGED streamVars
    /\ UNCHANGED aggregatorVars
    /\ UNCHANGED lateVars

\* the response a vendor would send with the wire message `wire` as its message
ResponseOf(h, wire) ==
    CASE h = "openai" -> JObj([choices |-> JArr(<<JObj([message |-> wire])>>)])
      [] h = "anthropic" -> wire
      [] h = "gemini" -> JObj([candidates |-> JArr(<<JObj([content |-> wire])>>)])

\* the caller reads wire message i back with adapter.ConvertFromAPI
ReadBack(i) ==
    /\ apiMsgs # <<>>
    /\ parsed = <<>>
    /\ i \in 1..Len(apiMsgs[1])
    /\ LET c == ConvertFromAPI(handler, ResponseOf(handler, apiMsgs[1][i]), toolCallCounter) IN
       /\ parsed' = <<[wire |-> i, msg |-> c.res.msg, panic |-> c.res.panic]>>
       /\ toolCallCounter' = c.counter
    /\ UNCHANGED <<messages, systemPrompt, apiMsgs, httpResponse, result, retryable>>
    /\ UNCHANGED streamVars
    /\ UNCHANGED aggregatorVars
    /\ UNCHANGED lateVars

TransformInit ==
    /\ InitStream
    /\ InitRequest
    /\ InitLate
    /\ messages \in MessageLists
    /\ systemPrompt \in Prompts

TransformNext ==
    \/ CallBuildAPIMessages
    \/ \E i \in 1..(2 * MaxMessages + 1) : ReadBack(i)

TransformSpec == TransformInit /\ [][TransformNext]_vars

(***************************************************************************)
(* BaseClient.Complete                                                     *)
(***************************************************************************)
CompleteStatusCodes == {200, 400, 401, 404, 429, 500, 501, 502, 503, 504, 505}

\* the answer each vendor sends, decoded
ValidResponse(h) ==
    CASE h = "openai" ->
           JObj([choices |-> JArr(<<JObj([message |-> JObj([content |-> JStr("Hi!")]),
                                          finish_reason |-> JStr("stop")])>>),
                 model |-> JStr("m1")])
      [] h = "anthropic" ->
           JObj([content |-> JArr(<<JObj([type |-> JStr("text"), text |-> JStr("Hi!")])>>),
                 stop_reason |-> JStr("end_turn")])
      [] h = "gemini" ->
           JObj([candidates |-> JArr(<<JObj(
                    [content |-> JObj([parts |-> JArr(<<JObj([text |-> JStr("Hi!")])>>)]),
                     finishReason |-> JStr("STOP")])>>)])

\* the responses of the server to Complete
Responses ==
    [status : CompleteStatusCodes, requestID : RequestIDs,
     body : {ValidBody, InvalidBody}, json : BOOLEAN]

\* getModelFromConfig()
ConfigModel == "test-model"

\* what Complete returns, and the adapter's counter after it.  The HTTP
\* library decodes the body into apiResp only for a 2xx response of JSON
\* content type, and Post returns its decode error.
CompleteResult(h, reqErr, transportErr, resp, counter) ==
    LET fail(err) == [resp |-> <<>>, err |-> <<err>>, counter |-> counter]
        decodes == resp.json /\ resp.status >= 200 /\ resp.status <= 299
        apiResp == IF decodes /\ resp.body = ValidBody THEN ValidResponse(h) ELSE JNull
        p == ParseAPIResponse(h, apiResp, counter)
        respModel == Field(apiResp, "model")
    IN IF reqErr = "build" THEN fail(NewRequestError("build request"))
       ELSE IF reqErr = "marshal" THEN fail(NewRequestError("marshal request"))
       ELSE IF transportErr \/ (decodes /\ resp.body # ValidBody) THEN fail(NewHTTPError)
       ELSE IF resp.status >= 400
       THEN fail(APIErrorOf(h, resp, FALSE))
       ELSE [resp |-> <<[Message |-> p.msg, FinishReason |-> p.finishReason,
                         Model |-> IF respModel.t = "str" /\ respModel.s # ""
                                   THEN respModel.s ELSE ConfigModel,
                         Usage |-> p.usage]>>,
             err |-> <<>>, counter |-> p.counter]

Complete(reqErr, transportErr, resp) ==
    /\ result = <<>>
    /\ LET r == CompleteResult(handler, reqErr, transportErr, resp, toolCallCounter) IN
       /\ result' = <<[resp |-> r.resp, err |-> r.err]>>
       /\ toolCallCounter' = r.counter
    /\ httpResponse' = IF reqErr = "none" /\ ~transportErr THEN <<resp>> ELSE <<>>
    /\ UNCHANGED <<messages, systemPrompt, apiMsgs, parsed, retryable>>
    /\ UNCHANGED streamVars
    /\ UNCHANGED aggregatorVars
    /\ UNCHANGED lateVars

RECURSIVE Wraps(_)
Wraps(err) == IF err.Type = "error" /\ err.Err # <<>> THEN 1 + Wraps(err.Err[1]) ELSE 0

\* the caller wraps the error of Complete: fmt.Errorf("...: %w", err)
WrapError ==
    /\ result # <<>>
    /\ result[1].err # <<>>
    /\ retryable = <<>>
    /\ Wraps(result[1].err[1]) < MaxWraps
    /\ result' = <<[result[1] EXCEPT !.err = <<OtherError(result[1].err)>>]>>
    /\ UNCHANGED <<messages, systemPrompt, apiMsgs, parsed, toolCallCounter, httpResponse, retryable>>
    /\ UNCHANGED streamVars
    /\ UNCHANGED aggregatorVars
    /\ UNCHANGED lateVars

\* the caller asks llm.IsRetryableError(err)
CallIsRetryableError ==
    /\ result # <<>>
    /\ result[1].err # <<>>
    /\ retryable = <<>>
    /\ retryable' = <<IsRetryableError(result[1].err[1])>>
    /\ UNCHANGED <<messages, systemPrompt, apiMsgs, parsed, toolCallCounter, httpResponse, result>>
    /\ UNCHANGED streamVars
    /\ UNCHANGED aggregatorVars
    /\ UNCHANGED lateVars

CompleteInit ==
    /\ InitStream
    /\ InitRequest
    /\ InitLate
    /\ messages = <<Message(RoleUser, "Hello", <<>>)>>
    /\ systemPrompt = ""

CompleteNext ==
    \/ \E reqErr \in {"none", "build", "marshal"}, transportErr \in BOOLEAN,
          resp \in Responses : Complete(reqErr, transportErr, resp)
    \/ WrapError
    \/ CallIsRetryableError

CompleteSpec == CompleteInit /\ [][CompleteNext]_vars

(***************************************************************************)
(* Properties of the request path                                          *)
(***************************************************************************)
RetryableStatuses == {429, 500, 502, 503, 504}

\* the error Complete returned (wrapped or not), when it returned one
CompleteErr == result[1].err[1]

\* C22: IsRetryable(err) is true if and only if the error is, or wraps, an
\* APIError whose status is one of 429, 500, 502, 503, 504; it is false for
\* every other status and for every error that is not an API error.
C22_RetryableIffListedStatus ==
    retryable # <<>> =>
        (retryable[1] <=> /\ AsAPIError(CompleteErr) # <<>>
                          /\ AsAPIError(CompleteErr)[1].StatusCode \in RetryableStatuses)

\* C23: for Complete and for Stream, a response of status >= 400 yields a nil
\* result (no response, no channel) with an APIError that carries that
\* status, the body of the response, the provider name, and the X-Request-ID
\* of the response when it has one.
C23_APIErrorCarriesResponse ==
    (httpResponse # <<>> /\ httpResponse[1].status >= 400 /\ result # <<>>) =>
        /\ ret.ch = FALSE
        /\ result[1].resp = <<>>
        /\ AsAPIError(CompleteErr) =
             <<NewAPIError(httpResponse[1].status, httpResponse[1].body,
                           httpResponse[1].requestID, ProviderName(handler))>>

\* C24: Stream returns either a channel and a nil error, or no channel and an
\* error, never both and never neither; on every error return (request
\* build, serialization, transport failure, status >= 400) no parser task
\* has been started, and the body of the response, if there is one, has been
\* closed.
C24_ChannelOrError ==
    pc # "idle" =>
        /\ ret.ch <=> (ret.err = "nil")
        /\ ret.err # "nil" =>
             /\ pc = "failed"
             /\ calls = <<>> /\ events = <<>> /\ closes = 0 /\ endedBy = ""
             /\ ret.err = "APIError" => bodyClosed

C24_Witness == pc = "failed" /\ ret.err = "APIError" /\ ~ret.ch /\ bodyClosed

\* errors.As for an error type: whether the Unwrap chain of err has an error
\* of that type
RECURSIVE ChainHasType(_, _)
ChainHasType(err, type) ==
    \/ err.Type = type
    \/ err.Err # <<>> /\ ChainHasType(err.Err[1], type)

\* C25: Complete never returns a successful Response built from a response
\* body that failed to decode as JSON: for a response of status < 400 whose
\* body cannot be decoded it returns nil and a ResponseError.
C25_UndecodableBodyIsResponseError ==
    (result # <<>> /\ httpResponse # <<>> /\ httpResponse[1].status < 400
                   /\ httpResponse[1].body = InvalidBody) =>
        /\ result[1].resp = <<>>
        /\ result[1].err # <<>>
        /\ ChainHasType(CompleteErr, ErrTypeResponse)

(***************************************************************************)
(* Properties of the translation of messages                               *)
(***************************************************************************)
WithoutSystem(msgs) == SelectSeq(msgs, LAMBDA m : m.Role # RoleSystem)

HasSystemMessage == \E i \in 1..Len(messages) : messages[i].Role = RoleSystem

\* the wire output of BuildAPIMessages, once called
WireOutput == apiMsgs[1]

\* C26: for every adapter, message list and system prompt, BuildAPIMessages
\* returns for a list holding system-role messages, at any positions, exactly
\* the wire output it returns for the list with those messages removed.
C26_SystemMessagesIgnored ==
    apiMsgs # <<>> =>
        WireOutput = BuildAPIMessages(handler, WithoutSystem(messages), systemPrompt)

C26_Witness ==
    /\ apiMsgs # <<>>
    /\ Len(messages) = 2
    /\ messages[2].Role = RoleSystem
    /\ messages[1].Role = RoleUser
    /\ systemPrompt # ""
    /\ Len(WireOutput) = 2

SystemWireMessages == {i \in 1..Len(WireOutput) : Field(WireOutput[i], "role") = JStr("system")}

\* C27: the output of BuildAPIMessages has a system-role wire message if and
\* only if the policy of the adapter is Inline and the system prompt is not
\* empty; it is then the only one, the first element, and its content is the
\* system prompt.  Under the Separate policy the output has none.
C27_SystemWireMessage ==
    apiMsgs # <<>> =>
        IF GetSystemMessageHandling(handler) = SystemInline /\ systemPrompt # ""
        THEN /\ SystemWireMessages = {1}
             /\ Field(WireOutput[1], "content") = JStr(systemPrompt)
        ELSE SystemWireMessages = {}

C27_Witness ==
    /\ apiMsgs # <<>>
    /\ handler = "openai"
    /\ systemPrompt # ""
    /\ HasSystemMessage
    /\ Len(WireOutput) = 3
    /\ SystemWireMessages = {1}

ToolResultsOf(msg) == SelectSeq(msg.ContentBlocks, LAMBDA b : b.block = "tool_result")

\* one role=tool wire message per ToolResultBlock of msg, in block order
ToolWire(msg) ==
    [n \in 1..Len(ToolResultsOf(msg)) |->
        JObj([role |-> JStr("tool"), tool_call_id |-> JStr(ToolResultsOf(msg)[n].ToolUseID),
              content |-> JStr(ToolResultsOf(msg)[n].Content)])]

\* the wire messages in the order of the input messages, a message with
\* ToolResultBlocks giving its role=tool messages and nothing else; anyRole:
\* whether a system-role message with ToolResultBlocks gives them too
RECURSIVE ExpansionOf(_, _)
ExpansionOf(msgs, anyRole) ==
    IF msgs = <<>> THEN <<>>
    ELSE LET m == Head(msgs)
             part == IF ToolResultsOf(m) # <<>> /\ (anyRole \/ m.Role # RoleSystem)
                     THEN ToolWire(m)
                     ELSE OpenAIConvertMessage(m)
         IN part \o ExpansionOf(Tail(msgs), anyRole)

\* the wire output without the inline system prompt
WireOfMessages == IF SystemWireMessages = {} THEN WireOutput ELSE Tail(WireOutput)

\* C28 (as stated): for any neutral message with k >= 1 ToolResultBlocks the
\* OpenAI adapter emits exactly k wire messages of role tool, in block order,
\* each with the tool_use_id of its block as tool_call_id, and no wire message
\* for the enclosing message; the wire messages follow the order of the input
\* messages.
C28_ToolResultsExpanded ==
    (apiMsgs # <<>> /\ handler = "openai") => WireOfMessages = ExpansionOf(messages, TRUE)

\* C28 (amended): the same for any neutral message whose role is not system;
\* a system-role message gives no wire message, whatever its blocks.
C28_ToolResultsOfNonSystemExpanded ==
    (apiMsgs # <<>> /\ handler = "openai") => WireOfMessages = ExpansionOf(messages, FALSE)

C28_Witness ==
    /\ apiMsgs # <<>>
    /\ handler = "openai"
    /\ Len(messages) = 2
    /\ Len(ToolResultsOf(messages[1])) = 1 /\ messages[1].Role = RoleUser
    /\ Len(ToolResultsOf(messages[2])) = 2
    /\ Len(WireOfMessages) = 3
    /\ \A i \in 1..3 : Field(WireOfMessages[i], "role") = JStr("tool")

\* what identifies a block in the wire format of adapter h: its kind, and its
\* text, its id (its name for Gemini, which has no ids) or its tool_use_id
ItemOf(h, b) ==
    CASE b.block = "text" -> <<"text", b.Text>>
      [] b.block = "tool_use" -> <<"tool_use", IF h = "gemini" THEN b.Name ELSE b.ID>>
      [] b.block = "tool_result" -> <<"tool_result", b.ToolUseID>>

OfKind(items, kind) == SelectSeq(items, LAMBDA it : it[1] = kind)

\* the blocks of a message in block order; for OpenAI, whose wire message
\* holds the text and the tool calls in separate fields, by kind first
ItemsOfMessage(h, msg) ==
    LET items == IF msg.ContentBlocks = <<>> /\ msg.Content # ""
                 THEN <<<<"text", msg.Content>>>>
                 ELSE [n \in 1..Len(msg.ContentBlocks) |-> ItemOf(h, msg.ContentBlocks[n])]
    IN IF h = "openai"
       THEN OfKind(items, "text") \o OfKind(items, "tool_use") \o OfKind(items, "tool_result")
       ELSE items

\* the translated blocks of one wire message, in the order the wire message
\* holds them
ItemsOfWire(h, w) ==
    LET seq(v) == IF v.t = "arr" THEN v.a ELSE <<>>
        OpenAICall(tc) == <<"tool_use", GetString(Field(tc, "id"))>>
        AnthropicItem(blk) ==
            LET type == GetString(Field(blk, "type")) IN
            <<type, GetString(Field(blk, CASE type = "text" -> "text"
                                            [] type = "tool_use" -> "id"
                                            [] OTHER -> "tool_use_id"))>>
        GeminiItem(part) ==
            IF Field(part, "functionCall").t = "obj"
            THEN <<"tool_use", GetString(Field(Field(part, "functionCall"), "name"))>>
            ELSE IF Field(part, "functionResponse").t = "obj"
            THEN <<"tool_result", GetString(Field(Field(part, "functionResponse"), "name"))>>
            ELSE <<"text", GetString(Field(part, "text"))>>
    IN CASE h = "openai" ->
              IF Field(w, "role") = JStr("tool") /\ Field(w, "tool_call_id").t = "str"
              THEN <<<<"tool_result", GetString(Field(w, "tool_call_id"))>>>>
              ELSE (IF GetString(Field(w, "content")) # ""
                    THEN <<<<"text", GetString(Field(w, "content"))>>>> ELSE <<>>)
                   \o [n \in 1..Len(seq(Field(w, "tool_calls"))) |->
                          OpenAICall(seq(Field(w, "tool_calls"))[n])]
         [] h = "anthropic" ->
              [n \in 1..Len(seq(Field(w, "content"))) |-> AnthropicItem(seq(Field(w, "content"))[n])]
         [] h = "gemini" ->
              [n \in 1..Len(seq(Field(w, "parts"))) |-> GeminiItem(seq(Field(w, "parts"))[n])]

RECURSIVE ItemsOfMessages(_, _)
ItemsOfMessages(h, msgs) ==
    IF msgs = <<>> THEN <<>>
    ELSE ItemsOfMessage(h, Head(msgs)) \o ItemsOfMessages(h, Tail(msgs))

RECURSIVE ItemsOfWires(_, _)
ItemsOfWires(h, wires) ==
    IF wires = <<>> THEN <<>>
    ELSE ItemsOfWire(h, Head(wires)) \o ItemsOfWires(h, Tail(wires))

\* whether a is b with some elements left out, the others in their order
RECURSIVE IsSubseq(_, _)
IsSubseq(a, b) ==
    IF a = <<>> THEN TRUE
    ELSE IF b = <<>> THEN FALSE
    ELSE IF Head(a) = Head(b) THEN IsSubseq(Tail(a), Tail(b))
    ELSE IsSubseq(a, Tail(b))

\* C29: for every adapter ConvertToAPI preserves order: the translations of
\* the content blocks of a message are in the wire output in the relative
\* order of the blocks in the message, and the wire messages are in the
\* relative order of the input messages.
C29_OrderPreserved ==
    apiMsgs # <<>> =>
        IsSubseq(ItemsOfWires(handler, WireOfMessages), ItemsOfMessages(handler, messages))

C29_Witness ==
    /\ apiMsgs # <<>>
    /\ handler = "anthropic"
    /\ Len(messages) = 2
    /\ ItemsOfWires(handler, WireOfMessages) =
          <<<<"tool_use", "c1">>, <<"text", "a">>, <<"text", "a">>, <<"tool_result", "c1">>>>

\* what the round trip is to keep of a message for adapter h: its text blocks
\* and its tool calls with id (not for Gemini, whose ids are synthetic), name
\* and input, in block order; the text of Content when there are no blocks
Kept(h, msg) ==
    LET blocks == SelectSeq(msg.ContentBlocks, LAMBDA b : b.block \in {"text", "tool_use"})
        Item(b) == IF b.block = "text" THEN <<"text", b.Text>>
                   ELSE <<"tool_use", IF h = "gemini" THEN "" ELSE b.ID, b.Name, b.Input>>
    IN IF msg.ContentBlocks = <<>>
       THEN (IF msg.Content = "" THEN <<>> ELSE <<<<"text", msg.Content>>>>)
       ELSE [n \in 1..Len(blocks) |-> Item(blocks[n])]

\* a list of one message that is not a system message was converted into one
\* wire message, which was read back
RoundTripDone ==
    /\ parsed # <<>>
    /\ Len(messages) = 1
    /\ messages[1].Role # RoleSystem
    /\ systemPrompt = ""
    /\ Len(WireOutput) = 1

\* C30: for every adapter V and every message M built from the block types of
\* the core, converting M with V.ConvertToAPI and reading the wire message
\* back with V.ConvertFromAPI gives a message equal to M: the same text, the
\* same tool calls with id, name and input, in the same block order, up to
\* the collapsing of empty content, the filtering of system messages and the
\* synthetic ids of Gemini.
C30_RoundTrip ==
    RoundTripDone =>
        /\ ~parsed[1].panic
        /\ Kept(handler, parsed[1].msg) = Kept(handler, messages[1])

\* the messages of the list that give no wire content block with Anthropic
GivesNoContent(msg) == msg.ContentBlocks = <<>> /\ msg.Content = ""

\* C31: every wire message the Anthropic adapter's ConvertToAPI emits has a
\* non-empty content array; a neutral message that yields no wire content
\* block produces no wire message at all.
C31_AnthropicContentNotEmpty ==
    (apiMsgs # <<>> /\ handler = "anthropic") =>
        /\ \A i \in 1..Len(WireOutput) :
              /\ Field(WireOutput[i], "content").t = "arr"
              /\ Len(Field(WireOutput[i], "content").a) > 0
        /\ Len(WireOutput) =
              Len(SelectSeq(messages, LAMBDA m : m.Role # RoleSystem /\ ~GivesNoContent(m)))

C31_Witness ==
    /\ apiMsgs # <<>>
    /\ handler = "anthropic"
    /\ Len(messages) = 2
    /\ GivesNoContent(messages[1]) /\ messages[1].Role = RoleUser
    /\ messages[2].Role = RoleAssistant
    /\ Len(WireOutput) = 1

(***************************************************************************)
(* A vendor finish reason on the sync path (ConvertFromAPI of a response)  *)
(* and on the stream path (HandleEvent of the frame that reports it)       *)
(***************************************************************************)
VendorReasons ==
    {"", "stop", "length", "tool_calls", "content_filter",
     "end_turn", "max_tokens", "tool_use", "stop_sequence",
     "STOP", "MAX_TOKENS", "SAFETY", "RECITATION", "OTHER",
     "pause_turn", "MALFORMED_FUNCTION_CALL"}

\* the response of vendor h that reports the finish reason r
FinishResponse(h, r) ==
    CASE h = "openai" ->
           JObj([choices |-> JArr(<<JObj([message |-> JObj([content |-> JStr("Hi!")]),
                                          finish_reason |-> JStr(r)])>>)])
      [] h = "anthropic" ->
           JObj([content |-> JArr(<<JObj([type |-> JStr("text"), text |-> JStr("Hi!")])>>),
                 stop_reason |-> JStr(r)])
      [] h = "gemini" ->
           JObj([candidates |-> JArr(<<JObj(
                    [content |-> JObj([parts |-> JArr(<<JObj([text |-> JStr("Hi!")])>>)]),
                     finishReason |-> JStr(r)])>>)])

\* the frame of vendor h that reports the finish reason r alone
FinishFrame(h, r) ==
    CASE h = "openai" ->
           JObj([choices |-> JArr(<<JObj([delta |-> JObj(<<>>), finish_reason |-> JStr(r)])>>)])
      [] h = "anthropic" -> JObj([delta |-> JObj([stop_reason |-> JStr(r)])])
      [] h = "gemini" -> JObj([candidates |-> JArr(<<JObj([finishReason |-> JStr(r)])>>)])

FinishEventType(h) == IF h = "anthropic" THEN "message_delta" ELSE ""

\* adapter.ConvertFromAPI on the response
SyncFinish ==
    /\ finishReasons.sync = <<>>
    /\ LET c == ConvertFromAPI(handler, FinishResponse(handler, finishReasons.vendor),
                               toolCallCounter) IN
       /\ finishReasons' = [finishReasons EXCEPT !.sync = <<c.res.finishReason>>]
       /\ toolCallCounter' = c.counter
    /\ UNCHANGED idVars
    /\ UNCHANGED tailVars
    /\ UNCHANGED <<messages, systemPrompt, apiMsgs, parsed, httpResponse, result, retryable>>
    /\ UNCHANGED streamVars
    /\ UNCHANGED aggregatorVars

\* handler.HandleEvent on the frame: the finish reasons of the done events
StreamFinish ==
    /\ finishReasons.stream = <<>>
    /\ LET r == HandleEvent(handler, FinishEventType(handler),
                            FinishFrame(handler, finishReasons.vendor), streamToolCallCounter)
           done == SelectSeq(r.res.events, LAMBDA e : e.Type = EventTypeDone) IN
       /\ finishReasons' =
             [finishReasons EXCEPT !.stream = <<[n \in 1..Len(done) |-> done[n].FinishReason]>>]
       /\ streamToolCallCounter' = r.counter
    /\ UNCHANGED idVars
    /\ UNCHANGED tailVars
    /\ UNCHANGED <<handler, pc, ret, body, currentEvent, pending, returnAfter, why, events,
                   closes, bodyClosed, cancelled, consumer, received, calls, endedBy,
                   sentAfterClose>>
    /\ UNCHANGED aggregatorVars
    /\ UNCHANGED requestVars

FinishInit ==
    /\ InitStream
    /\ InitRequest
    /\ messages = <<>>
    /\ systemPrompt = ""
    /\ finishReasons \in [vendor : VendorReasons, sync : {<<>>}, stream : {<<>>}]
    /\ InitIDs
    /\ InitTail

FinishNext == SyncFinish \/ StreamFinish

FinishSpec == FinishInit /\ [][FinishNext]_vars

(***************************************************************************)
(* Properties of the finish reasons                                        *)
(***************************************************************************)
\* the documented finish reasons of each vendor and their neutral values
Documented(h) ==
    CASE h = "openai" ->
           [r \in {"stop", "length", "tool_calls", "content_filter"} |-> r]
      [] h = "anthropic" ->
           ("end_turn" :> "stop") @@ ("stop_sequence" :> "stop")
           @@ ("max_tokens" :> "length") @@ ("tool_use" :> "tool_calls")
      [] h = "gemini" ->
           ("STOP" :> "stop") @@ ("OTHER" :> "stop") @@ ("MAX_TOKENS" :> "length")
           @@ ("SAFETY" :> "content_filter") @@ ("RECITATION" :> "content_filter")

Normalized(h, r) == IF r \in DOMAIN Documented(h) THEN Documented(h)[r] ELSE r

\* C32: for every vendor the sync adapter and the stream event handler map
\* every documented vendor finish reason to one of stop, length, tool_calls,
\* content_filter as documented, and return every undocumented reason
\* unchanged; the two paths of one vendor agree on every input (an empty
\* reason is no reason: "" on the sync path, no done event on the stream).
C32_FinishReasonNormalized ==
    LET r == finishReasons.vendor IN
    /\ finishReasons.sync # <<>> => finishReasons.sync[1] = Normalized(handler, r)
    /\ finishReasons.stream # <<>> =>
          finishReasons.stream[1] = IF r = "" THEN <<>> ELSE <<Normalized(handler, r)>>
    /\ \A h \in Handlers : \A d \in DOMAIN Documented(h) :
          Documented(h)[d] \in {"stop", "length", "tool_calls", "content_filter"}

C32_Witness ==
    /\ handler = "anthropic"
    /\ finishReasons = [vendor |-> "stop_sequence", sync |-> <<"stop">>, stream |-> <<<<"stop">>>>]

(***************************************************************************)
(* generateToolCallID and generateStreamToolCallID, run by goroutines that *)
(* parse Gemini responses and streams.  `counter++` on a package variable  *)
(* without a lock is a read and a write; the id is made from a second read.*)
(***************************************************************************)
IDKinds == {"adapter", "stream"}

CounterOf(kind) == IF kind = "adapter" THEN toolCallCounter ELSE streamToolCallCounter

\* add one occurrence of k to the counts c
Count(c, k) == IF k \in DOMAIN c THEN [c EXCEPT ![k] = @ + 1] ELSE c @@ (k :> 1)

\* the sum of the counts c over the keys S
RECURSIVE SumOver(_, _)
SumOver(c, S) ==
    IF S = {} THEN 0
    ELSE LET k == CHOOSE x \in S : TRUE IN c[k] + SumOver(c, S \ {k})

\* the ids each generator can return
IDsOf(kind) ==
    IF kind = "adapter" THEN {ToolCallID(c) : c \in 0..9} ELSE {StreamToolCallID(c) : c \in 0..25}

\* the generations of a kind that have returned, and those that have begun
Generated(kind) == SumOver(issuedIDs, DOMAIN issuedIDs \cap IDsOf(kind))

GenerationsStarted(kind) ==
    Generated(kind)
    + Cardinality({g \in Goroutines : generators[g].pc # "idle" /\ generators[g].kind = kind})

\* counter++, the read
LoadCounter(g, kind) ==
    /\ generators[g].pc = "idle"
    /\ GenerationsStarted(kind) <
          (IF kind = "adapter" THEN MaxGenerations ELSE MaxStreamGenerations)
    /\ generators' = [generators EXCEPT ![g] = [pc |-> "loaded", tmp |-> CounterOf(kind),
                                                kind |-> kind]]
    /\ UNCHANGED <<issuedIDs, finishReasons>>
    /\ UNCHANGED tailVars
    /\ UNCHANGED streamVars
    /\ UNCHANGED aggregatorVars
    /\ UNCHANGED requestVars

\* counter++, the write
StoreCounter(g) ==
    /\ generators[g].pc = "loaded"
    /\ generators' = [generators EXCEPT ![g].pc = "stored"]
    /\ IF generators[g].kind = "adapter"
       THEN /\ toolCallCounter' = generators[g].tmp + 1
            /\ UNCHANGED streamToolCallCounter
       ELSE /\ streamToolCallCounter' = generators[g].tmp + 1
            /\ UNCHANGED toolCallCounter
    /\ UNCHANGED <<issuedIDs, finishReasons>>
    /\ UNCHANGED tailVars
    /\ UNCHANGED <<handler, pc, ret, body, currentEvent, pending, returnAfter, why, events,
                   closes, bodyClosed, cancelled, consumer, received, calls, endedBy,
                   sentAfterClose>>
    /\ UNCHANGED aggregatorVars
    /\ UNCHANGED <<messages, systemPrompt, apiMsgs, parsed, httpResponse, result, retryable>>

\* return "call_" + ... counter%10, or "gemini_call_" + ... counter%26
ReturnID(g) ==
    /\ generators[g].pc = "stored"
    /\ generators' = [generators EXCEPT ![g].pc = "idle"]
    /\ issuedIDs' = Count(issuedIDs, IF generators[g].kind = "adapter"
                                     THEN ToolCallID(toolCallCounter)
                                     ELSE StreamToolCallID(streamToolCallCounter))
    /\ UNCHANGED finishReasons
    /\ UNCHANGED tailVars
    /\ UNCHANGED streamVars
    /\ UNCHANGED aggregatorVars
    /\ UNCHANGED requestVars

IDInit ==
    /\ InitStream
    /\ InitRequest
    /\ InitLate
    /\ handler = "gemini"
    /\ messages = <<>>
    /\ systemPrompt = ""

IDNext ==
    \E g \in Goroutines :
        \/ \E kind \in IDKinds : LoadCounter(g, kind)
        \/ StoreCounter(g)
        \/ ReturnID(g)

IDSpec == IDInit /\ [][IDNext]_vars

(***************************************************************************)
(* Properties of the synthetic tool-call ids                               *)
(***************************************************************************)
\* C33: the tool-call ids synthesized by the Gemini adapter and the Gemini
\* stream handler are locally unique: after any number of parsed responses
\* and streams, no two tool calls have received the same synthetic id.
C33_SyntheticIDsUnique == \A id \in DOMAIN issuedIDs : issuedIDs[id] = 1

InFlight(g) == generators[g].pc # "idle"

\* C34: the process-wide Gemini tool-call id counters are updated
\* atomically: no two concurrent generations read the same value of a
\* counter, and each counter has advanced by exactly the number of
\* generations that have incremented it.
C34_CountersAtomic ==
    /\ \A g1, g2 \in Goroutines :
          (g1 # g2 /\ InFlight(g1) /\ InFlight(g2)
                   /\ generators[g1].kind = generators[g2].kind)
              => generators[g1].tmp # generators[g2].tmp
    /\ \A kind \in IDKinds :
          CounterOf(kind) =
              Generated(kind)
              + Cardinality({g \in Goroutines : generators[g].pc = "stored"
                                                /\ generators[g].kind = kind})

(***************************************************************************)
(* provider.New: the factory that builds a provider from an llm.Config     *)
(***************************************************************************)
ProviderTypeOpenRouter == "openrouter"
ProviderTypeOllama == "ollama"

\* the types New hands to newOpenAI
OpenAICompatible ==
    {"openai", "openrouter", "deepseek", "ollama", "azure", "glm", "doubao", "moonshot",
     "groq", "mistral"}

\* the ProviderType constants, the test mock's among them
ProviderTypes == OpenAICompatible \cup {"anthropic", "gemini", "localmock", "mock"}

\* ProviderType.DefaultBaseURL, ProviderType.DefaultModel
DefaultOf(ptype) == "default of " \o ptype

NoError == <<>>
Errorf(msg) == <<msg>>
NewConfigError(msg, err) == <<msg>> \o err

Built(kind, config) == [provider |-> <<[kind |-> kind, config |-> config]>>, err |-> NoError]
NotBuilt(err) == [provider |-> <<>>, err |-> err]

\* (*Config).Validate of the openai and anthropic providers
Validate(config) ==
    IF config.APIKey = "" THEN NewConfigError("API key is required", NoError) ELSE NoError

\* core.NewBaseClient
NewBaseClient(config) ==
    IF Validate(config) # NoError
    THEN NewConfigError("config validation failed", Validate(config))
    ELSE NoError

\* openai.New, anthropic.New
ClientNew(kind, config) ==
    IF NewBaseClient(config) # NoError
    THEN NotBuilt(NewBaseClient(config))
    ELSE Built(kind, config)

\* gemini.New: newGemini sets no VertexProject
GeminiNew(config) ==
    IF config.APIKey = ""
    THEN NotBuilt(NewConfigError("API key is required for Gemini API backend", NoError))
    ELSE Built("gemini", config)

\* the vendor config that newOpenAI, newAnthropic and newGemini fill in
VendorConfig(c, apiKey, ptype) ==
    [APIKey |-> apiKey,
     BaseURL |-> IF c.BaseURL = "" THEN DefaultOf(ptype) ELSE c.BaseURL,
     Model |-> IF c.Model = "" THEN DefaultOf(ptype) ELSE c.Model]

newOpenAI(c, apiKey, ptype) == ClientNew("openai", VendorConfig(c, apiKey, ptype))
newAnthropic(c, apiKey) == ClientNew("anthropic", VendorConfig(c, apiKey, "anthropic"))
newGemini(c, apiKey) == GeminiNew(VendorConfig(c, apiKey, "gemini"))

\* provider.New(cfg): config is <<>> for nil, <<c>> otherwise
New(config) ==
    IF config = <<>> THEN NotBuilt(Errorf("config is required"))
    ELSE LET c == config[1]
             apiKey == c.APIKey
             providerType == IF c.Type = "" THEN ProviderTypeOpenRouter ELSE c.Type IN
    IF providerType # ProviderTypeOllama /\ apiKey = ""
    THEN NotBuilt(Errorf("API key is required"))
    ELSE CASE providerType \in OpenAICompatible -> newOpenAI(c, apiKey, providerType)
           [] providerType = "anthropic" -> newAnthropic(c, apiKey)
           [] providerType = "gemini" -> newGemini(c, apiKey)
           [] OTHER -> NotBuilt(Errorf("unsupported provider type: " \o providerType))

\* p, err := provider.New(cfg)
CallNew ==
    /\ newResult = <<>>
    /\ newResult' = <<New(cfg)>>
    /\ UNCHANGED <<finishReasons, generators, issuedIDs, cfg, mock>>
    /\ UNCHANGED streamVars
    /\ UNCHANGED aggregatorVars
    /\ UNCHANGED requestVars

\* the configs given to New
Configs ==
    {<<>>} \cup
    {<<c>> : c \in [Type : ProviderTypes \cup {"", "unknown"}, APIKey : {"", "sk-1"},
                    BaseURL : {"", "http://localhost:11434/v1"}, Model : {"", "m"}]}

ProviderInit ==
    /\ InitStream
    /\ InitRequest
    /\ messages = <<>>
    /\ systemPrompt = ""
    /\ handler = "openai"
    /\ finishReasons = [vendor |-> "", sync |-> <<>>, stream |-> <<>>]
    /\ InitIDs
    /\ cfg \in Configs
    /\ newResult = <<>>
    /\ mock = <<>>

ProviderNext == CallNew

ProviderSpec == ProviderInit /\ [][ProviderNext]_vars

(***************************************************************************)
(* Properties of provider.New                                              *)
(***************************************************************************)
\* the type New builds for: an empty Type is openrouter
TypeOf(c) == IF c.Type = "" THEN ProviderTypeOpenRouter ELSE c.Type

\* C35: provider.New returns an error for a config with an empty APIKey for
\* every provider type except ollama and the test mock, and for ollama it
\* returns a provider without requiring an API key.
C35_APIKeyRequiredExceptOllama ==
    (newResult # <<>> /\ cfg # <<>>) =>
        LET c == cfg[1] IN
        /\ (c.APIKey = "" /\ TypeOf(c) \notin {ProviderTypeOllama, "localmock", "mock"})
              => newResult[1].err # NoError
        /\ TypeOf(c) = ProviderTypeOllama
              => newResult[1].err = NoError /\ newResult[1].provider # <<>>

(***************************************************************************)
(* SSEParser.Parse read by a caller that receives every event as it is     *)
(* sent: one step is one iteration of the scan loop with its sends, over   *)
(* frames that carry content with a finish reason, Anthropic's closing     *)
(* frames, and frames whose members have unexpected types.                 *)
(***************************************************************************)
MaxFrameLines == 4

FrameLines(h) ==
    CASE h = "openai" ->
            {DataLine("oa_text"), DataLine("oa_finish"), DataLine("oa_text_finish"),
             DataLine("oa_badchoice"), DataLine("oa_badtool"), DataLine(DoneText)}
      [] h = "anthropic" ->
            {EventLine("message_delta"), EventLine("message_stop"), BlankLine,
             DataLine("an_msg_delta"), DataLine("an_msg_delta_tool_use"), DataLine("an_stop")}
      [] h = "gemini" ->
            {DataLine("gm_text"), DataLine("gm_finish"), DataLine("gm_text_finish"),
             DataLine("gm_badcandidate")}

\* Stream returned the channel and started Parse
OpenStream ==
    /\ pc = "idle"
    /\ pc' = "scan"
    /\ ret' = [ch |-> TRUE, err |-> "nil"]
    /\ UNCHANGED <<handler, body, currentEvent, pending, returnAfter, why, events, closes,
                   bodyClosed, cancelled, consumer, received, calls, endedBy, sentAfterClose,
                   streamToolCallCounter>>
    /\ UNCHANGED aggregatorVars
    /\ UNCHANGED requestVars
    /\ UNCHANGED lateVars

\* scanner.Scan() returned `line`; the loop body ran, and the caller received
\* what it sent.  A panic in the handler runs the deferred close and then
\* ends the program: the caller never sees the channel closed.
ParseFrame(line) ==
    /\ pc = "scan"
    /\ Len(body) < MaxFrameLines
    /\ body' = Append(body, line)
    /\ LET r == ProcessLine(handler, currentEvent, streamToolCallCounter, line) IN
       /\ currentEvent' = r.currentEvent
       /\ streamToolCallCounter' = r.counter
       /\ calls' = calls \o [i \in 1..Len(r.call) |->
                                [line |-> Len(body) + 1, eventType |-> r.call[i].eventType,
                                 data |-> r.call[i].data, events |-> r.call[i].events,
                                 stop |-> r.call[i].stop]]
       /\ IF r.panic
          THEN /\ ParserReturn("panic")
               /\ UNCHANGED <<received, consumer>>
          ELSE /\ received' = received \o r.send
               /\ IF r.return
                  THEN /\ ParserReturn(r.why)
                       /\ consumer' = "finished"
                  ELSE UNCHANGED <<pc, closes, bodyClosed, endedBy, consumer>>
    /\ UNCHANGED <<handler, ret, pending, returnAfter, why, events, cancelled, sentAfterClose>>
    /\ UNCHANGED aggregatorVars
    /\ UNCHANGED requestVars
    /\ UNCHANGED lateVars

\* scanner.Scan() returned false: Parse returns, the caller's range ends
EndOfBody ==
    /\ pc = "scan"
    /\ ParserReturn("eof")
    /\ consumer' = "finished"
    /\ UNCHANGED <<handler, ret, body, currentEvent, pending, returnAfter, why, events,
                   cancelled, received, calls, sentAfterClose, streamToolCallCounter>>
    /\ UNCHANGED aggregatorVars
    /\ UNCHANGED requestVars
    /\ UNCHANGED lateVars

FrameNext ==
    \/ OpenStream
    \/ \E line \in FrameLines(handler) : ParseFrame(line)
    \/ EndOfBody

FrameSpec == Init /\ [][FrameNext]_vars

(***************************************************************************)
(* Properties of the frames                                                *)
(***************************************************************************)
\* choices[0] of an OpenAI frame, candidates[0] of a Gemini chunk
FirstOf(h, payload) ==
    LET xs == Field(payload, IF h = "openai" THEN "choices" ELSE "candidates") IN
    IF xs.t = "arr" /\ Len(xs.a) > 0 THEN xs.a[1] ELSE JNull

FinishKey(h) == IF h = "openai" THEN "finish_reason" ELSE "finishReason"

\* the finish reason a frame reports, "" for none
FinishOf(h, payload) == GetString(Field(FirstOf(h, payload), FinishKey(h)))

\* the frame with its finish reason taken out
WithoutFinish(h, payload) ==
    LET first == FirstOf(h, payload) IN
    JObj((IF h = "openai" THEN "choices" ELSE "candidates") :>
            JArr(<<JObj([k \in DOMAIN first.o \ {FinishKey(h)} |-> first.o[k]])>>))

\* the events of the content of a frame that reports a finish reason
ContentEvents(h, eventType, payload) ==
    HandleEvent(h, eventType, WithoutFinish(h, payload), 0).res.events

\* C36: with the OpenAI and the Gemini handlers, a frame that carries both
\* content (text, reasoning or tool-call parts) and a non-empty finish
\* reason yields the content events followed by the done event: no content
\* of a frame is lost because the frame also reports the finish reason.
C36_ContentKeptWithFinish ==
    handler \in {"openai", "gemini"} =>
        \A k \in 1..Len(calls) :
            LET payload == Unmarshal(calls[k].data).payload
                fr == FinishOf(handler, payload) IN
            fr # "" =>
                calls[k].events =
                    ContentEvents(handler, calls[k].eventType, payload)
                    \o <<DoneEvent(IF handler = "openai" THEN fr
                                   ELSE mapFinishReasonForEvent(fr))>>

\* delta.stop_reason of an Anthropic message_delta frame
StopReasonOf(data) == GetString(Field(Field(Unmarshal(data).payload, "delta"), "stop_reason"))

\* C37: for an Anthropic stream in which a message_delta frame carries
\* stop_reason S and is followed by a message_stop frame, aggregating the
\* delivered events yields finish_reason equal to the mapped value of S
\* (tool_calls for tool_use, length for max_tokens).
C37_AnthropicStopReasonAggregated ==
    \A d \in {"an_msg_delta", "an_msg_delta_tool_use"} :
        (/\ handler = "anthropic"
         /\ body = <<EventLine("message_delta"), DataLine(d),
                     EventLine("message_stop"), DataLine("an_stop")>>
         /\ consumer = "finished")
            => ParseStream(received).FinishReason = convertStopReason(StopReasonOf(d))

\* C38: for every payload that decodes as a JSON object, whatever the types
\* of its fields (a choices[0], a candidates[0] or a tool_calls element that
\* is not an object), HandleEvent returns normally: a malformed frame never
\* crashes the parser task, and the channel is closed once when Parse ends.
C38_MalformedFrameDoesNotCrash ==
    /\ endedBy # "panic"
    /\ pc # "panicked"
    /\ pc = "done" => closes = 1

(***************************************************************************)
(* localmock: Client.Stream and its producer task.  `mock` holds the       *)
(* client's response (a sequence of characters), whether it has a delay    *)
(* and an error set, and i, the characters the range loop has gone past.   *)
(* The channel is `events`, the producer's position is `pc`: "idle",       *)
(* "failed", "delay", "loop", "return", "done".                            *)
(***************************************************************************)
\* the channel of a stream without the slot for the done event
MockCapWithoutDone(response) == Len(response)

\* make(chan *llm.Event, len(response)+1)
MockCap(response) == Len(response) + 1

\* what the mock actions leave alone
mockFrame ==
    <<handler, body, currentEvent, pending, returnAfter, why, bodyClosed, calls, endedBy,
      sentAfterClose, streamToolCallCounter, streamParser, finishReason, chunks, messages,
      systemPrompt, apiMsgs, parsed, toolCallCounter, httpResponse, result, retryable,
      finishReasons, generators, issuedIDs, cfg, newResult>>

\* Stream up to its return: the error set on the client, or the channel
MockStream ==
    /\ pc = "idle"
    /\ IF mock.err
       THEN /\ pc' = "failed"
            /\ ret' = [ch |-> FALSE, err |-> "error"]
       ELSE /\ pc' = IF mock.delay THEN "delay" ELSE "loop"
            /\ ret' = [ch |-> TRUE, err |-> "nil"]
    /\ UNCHANGED <<events, closes, cancelled, consumer, received, mock>>
    /\ UNCHANGED mockFrame

\* select: case <-time.After(delay)
MockDelayElapsed ==
    /\ pc = "delay"
    /\ pc' = "loop"
    /\ UNCHANGED <<ret, events, closes, cancelled, consumer, received, mock>>
    /\ UNCHANGED mockFrame

\* select: case <-ctx.Done(): return, in the delay or in the loop
MockCancelled ==
    /\ \/ pc = "delay"
       \/ pc = "loop" /\ mock.i < Len(mock.response)
    /\ cancelled
    /\ pc' = "return"
    /\ UNCHANGED <<ret, events, closes, cancelled, consumer, received, mock>>
    /\ UNCHANGED mockFrame

\* select: case chunks <- &llm.Event{Type: "text", TextDelta: string(ch)}
MockSendChar ==
    /\ pc = "loop"
    /\ mock.i < Len(mock.response)
    /\ Len(events) < MockCap(mock.response)
    /\ events' = Append(events, TextEvent(mock.response[mock.i + 1]))
    /\ mock' = [mock EXCEPT !.i = @ + 1]
    /\ UNCHANGED <<pc, ret, closes, cancelled, consumer, received>>
    /\ UNCHANGED mockFrame

\* chunks <- &llm.Event{Type: "done", FinishReason: "stop"}
MockSendDone ==
    /\ pc = "loop"
    /\ mock.i = Len(mock.response)
    /\ Len(events) < MockCap(mock.response)
    /\ events' = Append(events, DoneEvent("stop"))
    /\ pc' = "return"
    /\ UNCHANGED <<ret, closes, cancelled, consumer, received, mock>>
    /\ UNCHANGED mockFrame

\* defer close(chunks)
MockClose ==
    /\ pc = "return"
    /\ closes' = closes + 1
    /\ pc' = "done"
    /\ UNCHANGED <<ret, events, cancelled, consumer, received, mock>>
    /\ UNCHANGED mockFrame

\* the caller cancels the context
MockCancel ==
    /\ ~cancelled
    /\ cancelled' = TRUE
    /\ UNCHANGED <<pc, ret, events, closes, consumer, received, mock>>
    /\ UNCHANGED mockFrame

\* the caller receives an event
MockReceive ==
    /\ ret.ch
    /\ consumer = "active"
    /\ events # <<>>
    /\ received' = Append(received, Head(events))
    /\ events' = Tail(events)
    /\ UNCHANGED <<pc, ret, closes, cancelled, consumer, mock>>
    /\ UNCHANGED mockFrame

\* the caller's receive finds the channel closed and empty
MockReceiveClosed ==
    /\ ret.ch
    /\ consumer = "active"
    /\ events = <<>>
    /\ closes > 0
    /\ consumer' = "finished"
    /\ UNCHANGED <<pc, ret, events, closes, cancelled, received, mock>>
    /\ UNCHANGED mockFrame

\* the caller stops reading
MockStopReceiving ==
    /\ consumer = "active"
    /\ consumer' = "stopped"
    /\ UNCHANGED <<pc, ret, events, closes, cancelled, received, mock>>
    /\ UNCHANGED mockFrame

MockProducer ==
    MockDelayElapsed \/ MockCancelled \/ MockSendChar \/ MockSendDone \/ MockClose

MockResponses == UNION {[1..n -> {"a", "b"}] : n \in 0..MaxResponse}

MockInit ==
    /\ InitStream
    /\ InitRequest
    /\ messages = <<>>
    /\ systemPrompt = ""
    /\ handler = "openai"
    /\ finishReasons = [vendor |-> "", sync |-> <<>>, stream |-> <<>>]
    /\ InitIDs
    /\ cfg = <<>>
    /\ newResult = <<>>
    /\ mock \in [response : MockResponses, delay : BOOLEAN, err : BOOLEAN, i : {0}]

MockNext ==
    \/ MockStream
    \/ MockProducer
    \/ MockCancel
    \/ MockReceive
    \/ MockReceiveClosed
    \/ MockStopReceiving

MockSpec == MockInit /\ [][MockNext]_vars

\* the producer task is scheduled, and time.After fires
MockLiveSpec == MockSpec /\ WF_vars(MockProducer)

(***************************************************************************)
(* Properties of the mock stream                                           *)
(***************************************************************************)
\* the events of a response: one text event per character, then done
MockEvents(response) ==
    [n \in 1..Len(response) |-> TextEvent(response[n])] \o <<DoneEvent("stop")>>

\* C39: for the mock provider's Stream, under any interleaving of consumer
\* reads and context cancellation (including a consumer that never reads),
\* the producer task terminates and closes the channel exactly once; when
\* the context is not cancelled the channel delivers the response's
\* characters in order followed by exactly one done event with reason stop.
C39_MockStreamTerminates ==
    /\ [](closes <= 1)
    /\ [](pc = "done" => closes = 1)
    /\ []((~cancelled /\ consumer = "finished") => received = MockEvents(mock.response))
    /\ [](ret.ch => <>(pc = "done" /\ closes = 1))

C39_Witness ==
    /\ mock.response = <<"a", "b">>
    /\ ~cancelled
    /\ pc = "done"
    /\ closes = 1
    /\ consumer = "finished"
    /\ received = <<TextEvent("a"), TextEvent("b"), DoneEvent("stop")>>
====
